---- MODULE Spec2Model ----
(***************************************************************************)
(* The agent core of the coding agent: AgentOrchestrator.execute_task,     *)
(* SecurityValidator, ToolExecutor and the file tools, as designed in the  *)
(* implementation document (src/unnamed/part_006).                         *)
(*                                                                         *)
(* Strings are sequences of one-character strings, so that pathlib's       *)
(* parsing, resolution and the validator's substring tests are computed    *)
(* and not assumed.                                                        *)
(***************************************************************************)
EXTENDS Integers, Sequences, FiniteSets, TLC

\* ------------------------------------------------------------------------
\* Strings
\* ------------------------------------------------------------------------

SLASH == "/"

\* The backquote character (the lexer of the tools does not read it in a string)
BACKQUOTE == "BQ"

\* s[i..] starts with p
StartsAt(s, p, i) ==
    /\ i + Len(p) - 1 <= Len(s)
    /\ \A k \in 1..Len(p) : s[i + k - 1] = p[k]

\* Python: p in s
Contains(s, p) == \E i \in 1..(Len(s) + 1) : StartsAt(s, p, i)

\* Python: s.startswith(p)
StartsWith(s, p) == StartsAt(s, p, 1)

\* ------------------------------------------------------------------------
\* pathlib
\* ------------------------------------------------------------------------

\* The parts of a path string between slashes, "" and "." parts dropped
\* (PurePosixPath parsing); acc is the part being read.
RECURSIVE SplitFrom(_, _, _)
SplitFrom(s, i, acc) ==
    LET flush == IF acc = <<>> \/ acc = <<".">> THEN <<>> ELSE <<acc>>
    IN  IF i > Len(s) THEN flush
        ELSE IF s[i] = SLASH THEN flush \o SplitFrom(s, i + 1, <<>>)
        ELSE SplitFrom(s, i + 1, Append(acc, s[i]))

Parts(s) == SplitFrom(s, 1, <<>>)

\* Path(s).is_absolute()
IsAbsolute(s) == Len(s) > 0 /\ s[1] = SLASH

\* The symbolic links of the file system the agent runs on: location |-> target,
\* both as part sequences from the root.  One link inside the workspace's src
\* directory leads out of the workspace.
Symlinks ==
    [loc \in {<< <<"w","s">>, <<"s","r","c">>, <<"l","n","k">> >>}
        |-> << <<"e","t","c">> >>]

FollowLink(stack) == IF stack \in DOMAIN Symlinks THEN Symlinks[stack] ELSE stack

\* Path.resolve() of an absolute path given by its parts: ".." pops (the root
\* is its own parent), a part that completes a symbolic link is replaced by
\* the link's target.
RECURSIVE ResolveFrom(_, _, _)
ResolveFrom(parts, i, stack) ==
    IF i > Len(parts) THEN stack
    ELSE IF parts[i] = <<".", ".">>
         THEN ResolveFrom(parts, i + 1,
                  IF stack = <<>> THEN <<>> ELSE SubSeq(stack, 1, Len(stack) - 1))
         ELSE ResolveFrom(parts, i + 1, FollowLink(Append(stack, parts[i])))

ResolveParts(parts) == ResolveFrom(parts, 1, <<>>)

\* target.relative_to(base) succeeds
IsRelativeTo(target, base) ==
    /\ Len(base) <= Len(target)
    /\ SubSeq(target, 1, Len(base)) = base

\* target.relative_to(base), as parts
RelativeTo(target, base) == SubSeq(target, Len(base) + 1, Len(target))

\* str() of a relative path given by its parts
RECURSIVE JoinFrom(_, _)
JoinFrom(parts, i) ==
    IF i > Len(parts) THEN <<>>
    ELSE IF i = Len(parts) THEN parts[i]
    ELSE parts[i] \o <<SLASH>> \o JoinFrom(parts, i + 1)

PathStr(parts) == IF parts = <<>> THEN <<".">> ELSE JoinFrom(parts, 1)

\* ------------------------------------------------------------------------
\* Exceptions and parameters
\* ------------------------------------------------------------------------

\* A call either returns or raises: the exception type and its message kind.
NoError == [type |-> "none", msg |-> "none"]
Raise(type, msg) == [type |-> type, msg |-> msg]

\* dict.get(key, default); an absent key and None both read as the default
Get(params, key, default) == IF key \in DOMAIN params THEN params[key] ELSE default

\* ------------------------------------------------------------------------
\* SecurityValidator
\* ------------------------------------------------------------------------

ALLOWED_PATHS == << <<"s","r","c">>, <<"t","e","s","t","s">> >>

BLOCKED_PATHS ==
    << <<".","e","n","v">>,
       <<".","g","i","t">>,
       <<"n","o","d","e","_","m","o","d","u","l","e","s">>,
       <<"_","_","p","y","c","a","c","h","e","_","_">>,
       <<".","v","e","n","v">>,
       <<"v","e","n","v">> >>

ALLOWED_COMMANDS ==
    << <<"p","y","t","e","s","t">>,
       <<"p","y","t","h","o","n">>,
       <<"p","i","p">>,
       <<"b","l","a","c","k">>,
       <<"r","u","f","f">>,
       <<"m","y","p","y">> >>

dangerous_patterns ==
    << <<"r","m"," ","-","r","f">>,
       <<"s","u","d","o">>,
       <<"c","h","m","o","d">>,
       <<">">>,
       <<"|">>,
       <<"&","&">>,
       <<";">>,
       <<BACKQUOTE>>,
       <<"$","(">> >>

\* Path(s).resolve() when s is absolute, (base / s).resolve() when it is not
ResolveUnder(base, s) ==
    IF IsAbsolute(s) THEN ResolveParts(Parts(s))
    ELSE ResolveParts(base \o Parts(s))

validate_file_path_SkipsEscape(path, workspace_path) ==
    LET workspace == ResolveParts(Parts(workspace_path))
        target    == ResolveUnder(workspace, path)
        rel       == IF IsRelativeTo(target, workspace)
                     THEN RelativeTo(target, workspace) ELSE target
        path_str  == PathStr(rel)
    IN  IF path = <<>> THEN Raise("SecurityError", "Path cannot be empty")
        ELSE IF \E b \in 1..Len(BLOCKED_PATHS) :
                    Contains(path_str, BLOCKED_PATHS[b])
                    \/ StartsWith(path_str, BLOCKED_PATHS[b])
        THEN Raise("SecurityError", "Access denied to blocked path")
        ELSE NoError

\* validate_file_path with the allowed-directory test ahead of the blocked test
validate_file_path_AllowedFirst(path, workspace_path) ==
    LET workspace == ResolveParts(Parts(workspace_path))
        target    == ResolveUnder(workspace, path)
        path_str  == PathStr(RelativeTo(target, workspace))
    IN  IF path = <<>> THEN Raise("SecurityError", "Path cannot be empty")
        ELSE IF ~IsRelativeTo(target, workspace)
        THEN Raise("SecurityError", "Path outside workspace")
        ELSE IF /\ \A a \in 1..Len(ALLOWED_PATHS) :
                       ~IsRelativeTo(target,
                                     ResolveParts(workspace \o <<ALLOWED_PATHS[a]>>))
                /\ target # workspace
        THEN Raise("SecurityError", "Path not in allowed directories")
        ELSE IF \E b \in 1..Len(BLOCKED_PATHS) :
                    Contains(path_str, BLOCKED_PATHS[b])
                    \/ StartsWith(path_str, BLOCKED_PATHS[b])
        THEN Raise("SecurityError", "Access denied to blocked path")
        ELSE NoError

validate_file_path(path, workspace_path) ==
    LET workspace == ResolveParts(Parts(workspace_path))
        target    == ResolveUnder(workspace, path)
        path_str  == PathStr(RelativeTo(target, workspace))
    IN  IF path = <<>> THEN Raise("SecurityError", "Path cannot be empty")
        ELSE IF ~IsRelativeTo(target, workspace)
        THEN Raise("SecurityError", "Path outside workspace")
        ELSE IF \E b \in 1..Len(BLOCKED_PATHS) :
                    Contains(path_str, BLOCKED_PATHS[b])
                    \/ StartsWith(path_str, BLOCKED_PATHS[b])
        THEN Raise("SecurityError", "Access denied to blocked path")
        ELSE IF /\ \A a \in 1..Len(ALLOWED_PATHS) :
                       ~IsRelativeTo(target,
                                     ResolveParts(workspace \o <<ALLOWED_PATHS[a]>>))
                /\ target # workspace
        THEN Raise("SecurityError", "Path not in allowed directories")
        ELSE NoError

\* the characters str.split() takes as separators
WHITESPACE == {" ", "\t", "\n"}

\* command.split(): the maximal runs of non-blank characters
RECURSIVE TokensFrom(_, _, _)
TokensFrom(s, i, acc) ==
    LET flush == IF acc = <<>> THEN <<>> ELSE <<acc>>
    IN  IF i > Len(s) THEN flush
        ELSE IF s[i] \in WHITESPACE THEN flush \o TokensFrom(s, i + 1, <<>>)
        ELSE TokensFrom(s, i + 1, Append(acc, s[i]))

Tokens(s) == TokensFrom(s, 1, <<>>)

\* validate_command without the pass over dangerous_patterns
validate_command_AllowListOnly(command) ==
    IF command = <<>> THEN Raise("SecurityError", "Command cannot be empty")
    ELSE IF Tokens(command) = <<>> THEN Raise("IndexError", "list index out of range")
    ELSE IF \A c \in 1..Len(ALLOWED_COMMANDS) : Tokens(command)[1] # ALLOWED_COMMANDS[c]
    THEN Raise("SecurityError", "Command not allowed")
    ELSE NoError

validate_command(command) ==
    IF command = <<>> THEN Raise("SecurityError", "Command cannot be empty")
    ELSE IF Tokens(command) = <<>> THEN Raise("IndexError", "list index out of range")
    ELSE IF \A c \in 1..Len(ALLOWED_COMMANDS) : Tokens(command)[1] # ALLOWED_COMMANDS[c]
    THEN Raise("SecurityError", "Command not allowed")
    ELSE IF \E d \in 1..Len(dangerous_patterns) : Contains(command, dangerous_patterns[d])
    THEN Raise("SecurityError", "Dangerous pattern in command")
    ELSE NoError

FILE_TOOLS   == {"read_file", "edit_file", "create_file", "delete_file"}
SEARCH_TOOLS == {"list_files", "search_code"}

validate_action_FilesOnlyRead(tool_name, params, workspace_path) ==
    IF tool_name = "read_file"
    THEN validate_file_path(Get(params, "path", <<>>), workspace_path)
    ELSE NoError

validate_action(tool_name, params, workspace_path) ==
    IF tool_name \in FILE_TOOLS
    THEN validate_file_path(Get(params, "path", <<>>), workspace_path)
    ELSE IF tool_name \in SEARCH_TOOLS
    THEN validate_file_path(Get(params, "path", <<".">>), workspace_path)
    ELSE IF tool_name = "run_command"
    THEN validate_command(Get(params, "command", <<>>))
    ELSE IF tool_name = "run_tests" /\ "path" \in DOMAIN params
    THEN validate_file_path(params["path"], workspace_path)
    ELSE NoError

\* ------------------------------------------------------------------------
\* The file system: location (resolved parts from the root) |-> node
\* ------------------------------------------------------------------------

DirNode == [kind |-> "dir", content |-> <<>>]
FileNode(content) == [kind |-> "file", content |-> content]

Exists(fs, loc) == loc \in DOMAIN fs
IsFile(fs, loc) == loc \in DOMAIN fs /\ fs[loc].kind = "file"
IsDir(fs, loc)  == loc \in DOMAIN fs /\ fs[loc].kind = "dir"

Parent(loc) == SubSeq(loc, 1, Len(loc) - 1)

\* every proper ancestor of loc, the root included
Ancestors(loc) == {SubSeq(loc, 1, n) : n \in 0..(Len(loc) - 1)}

\* open(loc, "w") and write: the file is created or truncated
WriteFile(fs, loc, content) ==
    [l \in DOMAIN fs \cup {loc} |-> IF l = loc THEN FileNode(content) ELSE fs[l]]

\* parent.mkdir(parents=True, exist_ok=True)
MkdirParents(fs, loc) ==
    [l \in DOMAIN fs \cup Ancestors(loc) |-> IF l \in DOMAIN fs THEN fs[l] ELSE DirNode]

\* the nodes at loc and below it
Subtree(fs, loc) == {l \in DOMAIN fs : IsRelativeTo(l, loc)}

\* os.rename(src, dst) of a node that exists, dst free or replaceable
Rename(fs, src, dst) ==
    LET moved == Subtree(fs, src)
        kept  == (DOMAIN fs \ moved) \ {dst}
        image == {dst \o RelativeTo(l, src) : l \in moved}
    IN  [l \in kept \cup image |->
            IF l \in image THEN fs[src \o RelativeTo(l, dst)] ELSE fs[l]]

\* ------------------------------------------------------------------------
\* BaseTool and the file tools
\* ------------------------------------------------------------------------

\* BaseTool._resolve_path: an absolute path is returned as given, a relative
\* one is joined to the workspace and resolved.
resolve_path(workspace_path, path) ==
    IF IsAbsolute(path) THEN Parts(path)
    ELSE ResolveParts(ResolveParts(Parts(workspace_path)) \o Parts(path))

\* the location the operating system reaches through a path
Loc(p) == ResolveParts(p)

\* file_path.with_suffix(file_path.suffix + suffix): the name with suffix appended
WithSuffix(p, suffix) == [p EXCEPT ![Len(p)] = p[Len(p)] \o suffix]

SUFFIX_BACKUP  == <<".","b","a","c","k","u","p">>
SUFFIX_DELETED == <<".","d","e","l","e","t","e","d">>

\* One outcome of a tool: what it returned or raised, and the file system after.
Returned(result, fs) == [exc |-> NoError, result |-> result, fs |-> fs]
Raised(type, msg, fs) == [exc |-> Raise(type, msg), result |-> <<>>, fs |-> fs]

\* The byte limits, scaled to the lengths of the contents modelled here:
\* the code's 1024 * 1024 (read) and 500 * 1024 (create)
MAX_FILE_SIZE   == 4
MAX_CREATE_SIZE == 3

ReadFileTool(fs, ws, params) ==
    LET loc == Loc(resolve_path(ws, params["path"]))
    IN  IF "path" \notin DOMAIN params THEN Raised("KeyError", "path", fs)
        ELSE IF ~Exists(fs, loc) THEN Raised("FileNotFoundError", "File not found", fs)
        ELSE IF ~IsFile(fs, loc) THEN Raised("ValueError", "Not a file", fs)
        ELSE IF Len(fs[loc].content) > MAX_FILE_SIZE
        THEN Raised("ValueError", "File too large (max 1MB)", fs)
        ELSE Returned(fs[loc].content, fs)

\* str.find: the first index at or after i where p starts in s, 0 when none
RECURSIVE FindFrom(_, _, _)
FindFrom(s, p, i) ==
    IF i + Len(p) - 1 > Len(s) THEN 0
    ELSE IF StartsAt(s, p, i) THEN i
    ELSE FindFrom(s, p, i + 1)

\* str.count: occurrences that do not overlap, scanned from the left
RECURSIVE CountFrom(_, _, _)
CountFrom(s, p, i) ==
    IF p = <<>> THEN Len(s) + 1
    ELSE LET at == FindFrom(s, p, i)
         IN  IF at = 0 THEN 0 ELSE 1 + CountFrom(s, p, at + Len(p))

Count(s, p) == CountFrom(s, p, 1)

\* ReplaceFirst losing what follows the occurrence
ReplaceFirst_DropsTail(s, old, new) ==
    LET at == FindFrom(s, old, 1)
    IN  SubSeq(s, 1, at - 1) \o new

\* s.replace(old, new, 1) when old occurs in s
ReplaceFirst(s, old, new) ==
    LET at == FindFrom(s, old, 1)
    IN  SubSeq(s, 1, at - 1) \o new \o SubSeq(s, at + Len(old), Len(s))

EditFileTool(fs, ws, params) ==
    LET file_path   == resolve_path(ws, params["path"])
        loc         == Loc(file_path)
        old_string  == params["old_string"]
        new_string  == params["new_string"]
        content     == fs[loc].content
        backup      == Loc(WithSuffix(file_path, SUFFIX_BACKUP))
    IN  IF "path" \notin DOMAIN params THEN Raised("KeyError", "path", fs)
        ELSE IF "old_string" \notin DOMAIN params THEN Raised("KeyError", "old_string", fs)
        ELSE IF "new_string" \notin DOMAIN params THEN Raised("KeyError", "new_string", fs)
        ELSE IF ~Exists(fs, loc) THEN Raised("FileNotFoundError", "File not found", fs)
        ELSE IF IsDir(fs, loc) THEN Raised("IsADirectoryError", "Is a directory", fs)
        ELSE IF ~Contains(content, old_string)
        THEN Raised("ValueError", "String not found in file", fs)
        ELSE IF Count(content, old_string) > 1
        THEN Raised("ValueError", "String appears several times in file", fs)
        ELSE IF IsDir(fs, backup) THEN Raised("IsADirectoryError", "Is a directory", fs)
        ELSE Returned([success |-> TRUE, changes |-> 1, backup |-> backup],
                      WriteFile(WriteFile(fs, backup, content), loc,
                                ReplaceFirst(content, old_string, new_string)))

\* CreateFileTool without the test for an existing file
CreateFileTool_Overwrites(fs, ws, params) ==
    LET loc     == Loc(resolve_path(ws, params["path"]))
        content == params["content"]
    IN  IF "path" \notin DOMAIN params THEN Raised("KeyError", "path", fs)
        ELSE IF "content" \notin DOMAIN params THEN Raised("KeyError", "content", fs)
        ELSE IF IsDir(fs, loc) THEN Raised("IsADirectoryError", "Is a directory", fs)
        ELSE IF \E a \in Ancestors(loc) : IsFile(fs, a)
        THEN Raised("FileExistsError", "Parent is a file", fs)
        ELSE Returned([success |-> TRUE, path |-> loc, size |-> Len(content)],
                      WriteFile(MkdirParents(fs, loc), loc, content))

CreateFileTool(fs, ws, params) ==
    LET loc     == Loc(resolve_path(ws, params["path"]))
        content == params["content"]
    IN  IF "path" \notin DOMAIN params THEN Raised("KeyError", "path", fs)
        ELSE IF "content" \notin DOMAIN params THEN Raised("KeyError", "content", fs)
        ELSE IF Exists(fs, loc) THEN Raised("FileExistsError", "File already exists", fs)
        ELSE IF \E a \in Ancestors(loc) : IsFile(fs, a)
        THEN Raised("FileExistsError", "Parent is a file", fs)
        ELSE Returned([success |-> TRUE, path |-> loc, size |-> Len(content)],
                      WriteFile(MkdirParents(fs, loc), loc, content))

\* DeleteFileTool with confirm taken as given when it is left out
DeleteFileTool_ConfirmByDefault(fs, ws, params) ==
    LET file_path == resolve_path(ws, params["path"])
        loc       == Loc(file_path)
        backup    == Loc(WithSuffix(file_path, SUFFIX_DELETED))
    IN  IF "path" \notin DOMAIN params THEN Raised("KeyError", "path", fs)
        ELSE IF ~Get(params, "confirm", TRUE)
        THEN Raised("ValueError", "Must set confirm=true to delete file", fs)
        ELSE IF ~Exists(fs, loc) THEN Raised("FileNotFoundError", "File not found", fs)
        ELSE Returned([success |-> TRUE, deleted |-> file_path, backup |-> backup],
                      Rename(fs, loc, backup))

DeleteFileTool(fs, ws, params) ==
    LET file_path == resolve_path(ws, params["path"])
        loc       == Loc(file_path)
        backup    == Loc(WithSuffix(file_path, SUFFIX_DELETED))
    IN  IF "path" \notin DOMAIN params THEN Raised("KeyError", "path", fs)
        ELSE IF ~Get(params, "confirm", FALSE)
        THEN Raised("ValueError", "Must set confirm=true to delete file", fs)
        ELSE IF ~Exists(fs, loc) THEN Raised("FileNotFoundError", "File not found", fs)
        ELSE IF file_path = <<>> THEN Raised("ValueError", "empty name", fs)
        ELSE IF \/ IsFile(fs, loc) /\ IsDir(fs, backup)
                \/ IsDir(fs, loc) /\ IsFile(fs, backup)
                \/ IsDir(fs, loc) /\ IsDir(fs, backup) /\ Subtree(fs, backup) # {backup}
        THEN Raised("OSError", "rename failed", fs)
        ELSE Returned([success |-> TRUE, deleted |-> file_path, backup |-> backup],
                      Rename(fs, loc, backup))

\* ------------------------------------------------------------------------
\* The interaction tools and the tools that run outside the agent
\* ------------------------------------------------------------------------

\* finish: a terminal signal that cannot fail; it hands back what it was given
FinishTool(fs, params) == Returned(params, fs)

\* report_error: a terminal signal that cannot fail
ReportErrorTool(fs, params) == Returned(params, fs)

\* ask_user without an interactive channel attached fails at once
AskUserTool(fs, params) == Raised("RuntimeError", "No interactive channel", fs)

\* list_files, search_code, run_tests, run_command: they succeed, fail or time out
ExternalToolOutcomes(fs, params) ==
    { Returned([success |-> TRUE], fs),
      Raised("RuntimeError", "Tool failed", fs),
      Raised("TimeoutError", "Tool timed out", fs) }

\* ------------------------------------------------------------------------
\* ToolExecutor
\* ------------------------------------------------------------------------

EXTERNAL_TOOLS == {"list_files", "search_code", "run_tests", "run_command"}

REGISTERED_TOOLS ==
    FILE_TOOLS \cup EXTERNAL_TOOLS \cup {"ask_user", "finish", "report_error"}

\* ToolExecutor.execute: the outcomes the call can have
execute(fs, ws, tool_name, params) ==
    IF tool_name \notin REGISTERED_TOOLS THEN {Raised("ValueError", "Unknown tool", fs)}
    ELSE IF tool_name = "read_file"    THEN {ReadFileTool(fs, ws, params)}
    ELSE IF tool_name = "edit_file"    THEN {EditFileTool(fs, ws, params)}
    ELSE IF tool_name = "create_file"  THEN {CreateFileTool(fs, ws, params)}
    ELSE IF tool_name = "delete_file"  THEN {DeleteFileTool(fs, ws, params)}
    ELSE IF tool_name = "finish"       THEN {FinishTool(fs, params)}
    ELSE IF tool_name = "report_error" THEN {ReportErrorTool(fs, params)}
    ELSE IF tool_name = "ask_user"     THEN {AskUserTool(fs, params)}
    ELSE ExternalToolOutcomes(fs, params)

\* ------------------------------------------------------------------------
\* ConversationMemory
\* ------------------------------------------------------------------------

\* add_message dropping the oldest message, the original request included
add_message_DropsRequest(history, cap, msg) ==
    LET all == Append(history, msg)
    IN  IF Len(all) <= cap THEN all
        ELSE SubSeq(all, Len(all) - cap + 1, Len(all))

\* add a message; beyond the cap the oldest message after the original
\* request is dropped
add_message(history, cap, msg) ==
    LET all == Append(history, msg)
    IN  IF Len(all) <= cap THEN all
        ELSE <<all[1]>> \o SubSeq(all, Len(all) - cap + 2, Len(all))

\* ------------------------------------------------------------------------
\* AgentOrchestrator
\* ------------------------------------------------------------------------

VARIABLES
    pc,                    \* where execute_task stands
    status,                \* state.status
    error,                 \* state.error
    result,                \* state.result
    iteration,             \* iterations started (iteration + 1 of the for loop)
    consecutive_failures,
    agent_response,        \* the answer of the last get_next_actions call
    action_idx,            \* position of the inner loop in agent_response.actions
    action_results,
    memory,                \* ConversationMemory of the task
    iterations,            \* state.iterations
    events,                \* everything execute_task has yielded
    fs,                    \* the file system
    calls,                 \* the validator and executor calls made, in order
    llm_log,               \* what each get_next_actions call was given and gave
    active_tasks,          \* routes/agent.py: the module's active_tasks store
    sockets,               \* the WebSocket connections and the loop each one drives
    cancel_requested,      \* the surrounding system has asked to cancel the task
    connection,            \* extension.js: the module's connection (and fileSync)
    webSocket,             \* AgentConnection.ws and its readyState
    reconnectAttempts,     \* AgentConnection.reconnectAttempts
    reconnectTimer,        \* the close handler's setTimeout is pending
    statusBarItem,         \* statusBarItem.text
    awaiting,              \* what connectCommand is suspended on
    sent,                  \* the messages AgentConnection.send has written
    retries,               \* sockets the reconnect timer has opened since the last open
    pingTimers,            \* the setInterval timers of setupEventHandlers
    ticked,                \* how many of them have fired in the running 30 s
    intervalPings,         \* the pings sent in the running 30 s
    document,              \* the text of the workspace file file_changed names
    prompts,               \* the quick picks of showDiffAndApply the user has not answered
    changes,               \* the file_changed messages handled and what became of each
    this_ws,               \* AgentConnection.ws: the socket it refers to, 0 for null
    readyState,            \* readyState of every WebSocket the AgentConnection has made
    this_reconnectAttempts,
    timers,                \* pending setTimeout(() => this.connect()) of the close handlers
    this_sessionId,        \* AgentConnection.sessionId: how many ids were generated
    messageHandlers,       \* AgentConnection.messageHandlers
    arrived,               \* the data of the message events, in arrival order
    handled,               \* the handler calls handleMessage has made
    disconnected,          \* disconnect() was called and connect() not since
    step,                  \* deploy_to_server.sh: where the script stands
    attempt,               \* i of the health-check loop
    containers,            \* what docker-compose runs on the server
    release,               \* the files under SERVER_PATH
    backups,               \* the archives in the backup directory, oldest first
    exit_status,           \* the script's exit status
    output,                \* what the script has reported
    historyFile,           \* chat-history.json
    currentSession,        \* ChatHistory.currentSession
    nextId,                \* the ids _generateId has given out
    lastCall               \* the ChatHistory method that ran last

task_vars == << pc, status, error, result, iteration, consecutive_failures,
                agent_response, action_idx, action_results, memory, iterations,
                events, fs, calls, llm_log >>

svc_vars == << active_tasks, sockets, cancel_requested >>

ext_vars == << connection, webSocket, reconnectAttempts, reconnectTimer,
               statusBarItem, awaiting, sent, retries, pingTimers, ticked,
               intervalPings, document, prompts, changes >>

conn_vars == << this_ws, readyState, this_reconnectAttempts, timers,
                this_sessionId, messageHandlers, arrived, handled, disconnected >>

deploy_vars == << step, attempt, containers, release, backups, exit_status, output >>

history_vars == << historyFile, currentSession, nextId, lastCall >>

\* the variables of the parts that stand beside the agent core, the service
\* and the extension's commands
side_vars == << conn_vars, deploy_vars, history_vars >>

vars == << task_vars, svc_vars, ext_vars, side_vars >>

\* AgentOrchestrator.__init__ parameters
max_iterations == 3
max_failures   == 3

\* ConversationMemory(max_history=20)
max_history == 20

\* the task handed to execute_task
WORKSPACE    == <<"/","w","s">>
USER_REQUEST == "request"

\* Paths and strings the decision service uses
P_src_a      == <<"s","r","c","/","a",".","p","y">>
P_src_none   == <<"s","r","c","/","n",".","p","y">>
P_src_b      == <<"s","r","c","/","b",".","p","y">>
P_traversal  == <<".",".","/",".",".","/","e","t","c","/","p","a","s","s","w","d">>
P_abs_out    == <<"/","e","t","c","/","p","a","s","s","w","d">>
P_link_out   == <<"s","r","c","/","l","n","k","/","p","a","s","s","w","d">>
P_in_out_in  == <<"s","r","c","/",".",".","/",".",".","/","w","s","/","s","r","c","/","a",".","p","y">>
P_a_txt      == <<"a",".","t","x","t">>
P_src_a_txt  == <<"s","r","c","/","a",".","t","x","t">>
S_hi         == <<"h","i">>
S_x          == <<"x">>
S_y          == <<"y">>
CMD_pytest   == <<"p","y","t","e","s","t"," ","-","q">>

Act(tool, params) == [tool |-> tool, params |-> params]

\* an element of "actions" that is no JSON object (a string, a number, null)
NOT_A_MAPPING == Act("<not a mapping>", [none |-> TRUE])

A_read_a        == Act("read_file",   [path |-> P_src_a])
A_read_none     == Act("read_file",   [path |-> P_src_none])
A_read_trav     == Act("read_file",   [path |-> P_traversal])
A_read_link     == Act("read_file",   [path |-> P_link_out])
A_read_back_in  == Act("read_file",   [path |-> P_in_out_in])
A_edit_abs_out  == Act("edit_file",   [path |-> P_abs_out, old_string |-> S_x, new_string |-> S_y])
A_edit_a        == Act("edit_file",   [path |-> P_src_a, old_string |-> S_x, new_string |-> S_y])
A_create_b      == Act("create_file", [path |-> P_src_b, content |-> S_x])
A_finish        == Act("finish",      [success |-> TRUE])
A_report_error  == Act("report_error", [error_type |-> "file_not_found"])
A_bogus         == Act("bogus",       [path |-> P_src_a])
A_run_pytest    == Act("run_command", [command |-> CMD_pytest])

Response(reasoning, actions, raw) ==
    [reasoning |-> reasoning, actions |-> actions, raw_response |-> raw]

\* The answers get_next_actions can parse out of the decision service's text
Answers ==
    { Response("",      <<>>,                                   "r_empty"),
      Response("think", <<A_read_a>>,                           "r_read"),
      Response("",      <<A_read_trav, A_read_a>>,              "r_trav_then_read"),
      Response("",      <<A_read_none>>,                        "r_missing"),
      Response("think", <<A_edit_abs_out, A_read_link>>,        "r_two_escapes"),
      Response("",      <<A_read_a, A_finish, A_create_b>>,     "r_finish_mid"),
      Response("think", <<A_report_error, A_read_back_in>>,     "r_report"),
      Response("",      <<A_bogus, A_edit_a>>,                  "r_bogus"),
      Response("",      <<A_create_b, A_run_pytest>>,           "r_create_test"),
      Response("think", <<A_read_trav, A_finish>>,              "r_trav_finish"),
      Response("",      <<A_create_b, NOT_A_MAPPING>>,          "r_bad_element") }

NoResponse == Response("", <<>>, "none")

\* the WebSocket connections a client can open to the task
MaxSockets == 2
Sockets == 1..MaxSockets

\* the id create_agent_task gives the task (uuid4)
TASK_ID == "task-1"

\* a connection before the client has opened it
IdleSocket ==
    [pc |-> "idle", status |-> "none", iteration |-> 0,
     consecutive_failures |-> 0, pending |-> "none"]

\* no connection opened, no cancellation asked for
ServiceIdle ==
    /\ sockets = [c \in Sockets |-> IdleSocket]
    /\ cancel_requested = FALSE

\* the text of the workspace file before any file_changed
ORIGINAL_TEXT == "original"

\* statusBarItem.text
TEXT_PLUG  == "$(plug) AI Agent"
TEXT_CHECK == "$(check) AI Agent"

\* the extension after activate(), aiAgent.autoConnect off
ExtensionIdle ==
    /\ connection = "null"
    /\ webSocket = "null"
    /\ reconnectAttempts = 0
    /\ reconnectTimer = FALSE
    /\ statusBarItem = TEXT_PLUG
    /\ awaiting = "none"
    /\ sent = <<>>
    /\ retries = 0
    /\ pingTimers = 0
    /\ ticked = 0
    /\ intervalPings = 0
    /\ document = ORIGINAL_TEXT
    /\ prompts = <<>>
    /\ changes = <<>>

\* an AgentConnection after its constructor
ConnectionNew ==
    /\ this_ws = 0
    /\ readyState = <<>>
    /\ this_reconnectAttempts = 0
    /\ timers = 0
    /\ this_sessionId = 0
    /\ messageHandlers = <<>>
    /\ arrived = <<>>
    /\ handled = <<>>
    /\ disconnected = FALSE

\* deploy_to_server.sh not started: the server runs the release it has
DeployIdle ==
    /\ step = "start"
    /\ attempt = 0
    /\ containers = "old"
    /\ release = "old"
    /\ backups = <<>>
    /\ exit_status = "none"
    /\ output = <<>>

\* no file at historyPath
NoFile == [exists |-> FALSE]

\* currentSession: ChatSession | null = null
null == [null |-> TRUE]

\* a ChatHistory after its constructor, no chat-history.json yet
HistoryNew ==
    /\ historyFile = NoFile
    /\ currentSession = null
    /\ nextId = 0
    /\ lastCall = [op |-> "none"]

SideIdle == ConnectionNew /\ DeployIdle /\ HistoryNew

InitFs ==
    LET ws == Parts(WORKSPACE)
    IN  ( <<>>                                   :> DirNode
       @@ ws                                     :> DirNode
       @@ (ws \o << <<"s","r","c">> >>)           :> DirNode
       @@ (ws \o << <<"t","e","s","t","s">> >>)   :> DirNode
       @@ Parts(WORKSPACE \o <<SLASH>> \o P_src_a) :> FileNode(<<"a","x","b">>)
       @@ << <<"e","t","c">> >>                   :> DirNode
       @@ Parts(P_abs_out)                        :> FileNode(<<"r","o","o","t","x">>) )

\* the entry create_agent_task stores for a new task
PendingTask == [status |-> "pending", result |-> "none", error |-> "none"]

Init ==
    /\ pc = "start"
    /\ status = "pending"
    /\ error = "none"
    /\ result = <<>>
    /\ iteration = 0
    /\ consecutive_failures = 0
    /\ agent_response = NoResponse
    /\ action_idx = 0
    /\ action_results = <<>>
    /\ memory = <<>>
    /\ iterations = <<>>
    /\ events = <<>>
    /\ fs = InitFs
    /\ calls = <<>>
    /\ llm_log = <<>>
    /\ active_tasks = (TASK_ID :> PendingTask)
    /\ ServiceIdle
    /\ ExtensionIdle
    /\ SideIdle

Event(type, detail) == [type |-> type, detail |-> detail]

Emit(e) == events' = Append(events, e)

\* the action the inner loop stands on
CurrentAction == agent_response.actions[action_idx]

\* str(e) of the exceptions that end a task
REASON_MAX_ITERATIONS == "Max iterations reached without completion"
REASON_TOO_MANY_FAILURES == "Too many consecutive failures"
REASON_PARSE == "Failed to parse LLM response as JSON"
REASON_LLM_TIMEOUT == "LLM call timed out"

\* except Exception as e (outer): the task fails and task_failed is yielded
TaskFails(reason) ==
    /\ status' = "failed"
    /\ error' = reason
    /\ Emit(Event("task_failed", reason))
    /\ pc' = "done"

\* lines 116-127: memory and state are created, the request is remembered
Begin ==
    /\ pc = "start"
    /\ memory' = add_message(<<>>, max_history,
                             [role |-> "user", content |-> USER_REQUEST])
    /\ status' = "running"
    /\ consecutive_failures' = 0
    /\ pc' = "loop"
    /\ UNCHANGED << error, result, iteration, agent_response, action_idx,
                    action_results, iterations, events, fs, calls, llm_log >>
    /\ UNCHANGED << svc_vars, ext_vars, side_vars >>

\* IterationStart with the loop bound off by one
IterationStart_OffByOne ==
    /\ pc = "loop"
    /\ iteration <= max_iterations
    /\ iteration' = iteration + 1
    /\ Emit(Event("iteration_start", iteration + 1))
    /\ pc' = "llm"
    /\ UNCHANGED << status, error, result, consecutive_failures, agent_response,
                    action_idx, action_results, memory, iterations, fs, calls,
                    llm_log >>
    /\ UNCHANGED << svc_vars, ext_vars, side_vars >>

\* for iteration in range(self.max_iterations): yield iteration_start
IterationStart ==
    /\ pc = "loop"
    /\ iteration < max_iterations
    /\ iteration' = iteration + 1
    /\ Emit(Event("iteration_start", iteration + 1))
    /\ pc' = "llm"
    /\ UNCHANGED << status, error, result, consecutive_failures, agent_response,
                    action_idx, action_results, memory, iterations, fs, calls,
                    llm_log >>
    /\ UNCHANGED << svc_vars, ext_vars, side_vars >>

\* BudgetExhausted with the raise after the for loop left out: the generator
\* just ends
BudgetExhausted_Silent ==
    /\ pc = "loop"
    /\ iteration >= max_iterations
    /\ pc' = "done"
    /\ UNCHANGED << status, error, result, iteration, consecutive_failures,
                    agent_response, action_idx, action_results, memory, iterations,
                    events, fs, calls, llm_log >>
    /\ UNCHANGED << svc_vars, ext_vars, side_vars >>

\* BudgetExhausted one iteration early
BudgetExhausted_Early ==
    /\ pc = "loop"
    /\ iteration >= max_iterations - 1
    /\ TaskFails(REASON_MAX_ITERATIONS)
    /\ UNCHANGED << result, iteration, consecutive_failures, agent_response,
                    action_idx, action_results, memory, iterations, fs, calls,
                    llm_log >>
    /\ UNCHANGED << svc_vars, ext_vars, side_vars >>

\* the for loop is exhausted: raise RuntimeError("Max iterations ... reached")
BudgetExhausted ==
    /\ pc = "loop"
    /\ iteration >= max_iterations
    /\ TaskFails(REASON_MAX_ITERATIONS)
    /\ UNCHANGED << result, iteration, consecutive_failures, agent_response,
                    action_idx, action_results, memory, iterations, fs, calls,
                    llm_log >>
    /\ UNCHANGED << svc_vars, ext_vars, side_vars >>

\* await self.llm.get_next_actions(...) returns a parsed answer
LLMRespond ==
    /\ pc = "llm"
    /\ \E ans \in Answers :
          /\ agent_response' = ans
          /\ llm_log' = Append(llm_log, [given |-> memory, answer |-> ans.raw_response,
                                         actions |-> ans.actions])
    /\ pc' = "reasoning"
    /\ UNCHANGED << status, error, result, iteration, consecutive_failures,
                    action_idx, action_results, memory, iterations, events, fs,
                    calls >>
    /\ UNCHANGED << svc_vars, ext_vars, side_vars >>

\* LLMFail with a retry: the failure is noted and the loop goes on
LLMFail_Retries ==
    /\ pc = "llm"
    /\ \E reason \in {REASON_PARSE, REASON_LLM_TIMEOUT} :
          llm_log' = Append(llm_log, [given |-> memory, answer |-> reason,
                                      actions |-> <<>>])
    /\ pc' = "loop"
    /\ UNCHANGED << status, error, result, iteration, consecutive_failures,
                    agent_response, action_idx, action_results, memory, iterations,
                    events, fs, calls >>
    /\ UNCHANGED << svc_vars, ext_vars, side_vars >>

\* get_next_actions raises: the text is no JSON (ValueError), or the call to
\* the model times out
LLMFail ==
    /\ pc = "llm"
    /\ \E reason \in {REASON_PARSE, REASON_LLM_TIMEOUT} :
          /\ llm_log' = Append(llm_log, [given |-> memory, answer |-> reason,
                                         actions |-> <<>>])
          /\ TaskFails(reason)
    /\ UNCHANGED << result, iteration, consecutive_failures, agent_response,
                    action_idx, action_results, memory, iterations, fs, calls >>
    /\ UNCHANGED << svc_vars, ext_vars, side_vars >>

\* Reasoning with the failure counter started afresh in every iteration
Reasoning_ResetsFailures ==
    /\ pc = "reasoning"
    /\ IF agent_response.reasoning # ""
       THEN Emit(Event("reasoning", agent_response.reasoning))
       ELSE UNCHANGED events
    /\ action_results' = <<>>
    /\ action_idx' = 1
    /\ consecutive_failures' = 0
    /\ pc' = "actions"
    /\ UNCHANGED << status, error, result, iteration, agent_response, memory,
                    iterations, fs, calls, llm_log >>
    /\ UNCHANGED << svc_vars, ext_vars, side_vars >>

\* if agent_response.reasoning: yield reasoning; action_results = []
Reasoning ==
    /\ pc = "reasoning"
    /\ IF agent_response.reasoning # ""
       THEN Emit(Event("reasoning", agent_response.reasoning))
       ELSE UNCHANGED events
    /\ action_results' = <<>>
    /\ action_idx' = 1
    /\ pc' = "actions"
    /\ UNCHANGED << status, error, result, iteration, consecutive_failures,
                    agent_response, memory, iterations, fs, calls, llm_log >>
    /\ UNCHANGED << svc_vars, ext_vars, side_vars >>

\* for action_idx, action in enumerate(agent_response.actions): yield action_start
ActionStart ==
    /\ pc = "actions"
    /\ action_idx <= Len(agent_response.actions)
    /\ CurrentAction # NOT_A_MAPPING
    /\ Emit(Event("action_start", CurrentAction.tool))
    /\ pc' = "validate"
    /\ UNCHANGED << status, error, result, iteration, consecutive_failures,
                    agent_response, action_idx, action_results, memory, iterations,
                    fs, calls, llm_log >>
    /\ UNCHANGED << svc_vars, ext_vars, side_vars >>

\* action.get("tool") on an element that is no mapping raises AttributeError
\* outside the inner try: the outer handler ends the task
ActionMalformed ==
    /\ pc = "actions"
    /\ action_idx <= Len(agent_response.actions)
    /\ CurrentAction = NOT_A_MAPPING
    /\ TaskFails("AttributeError")
    /\ UNCHANGED << result, iteration, consecutive_failures, agent_response,
                    action_idx, action_results, memory, iterations, fs, calls,
                    llm_log >>
    /\ UNCHANGED << svc_vars, ext_vars, side_vars >>

\* format_results with every line marked as a success
format_results_AllOk(results) ==
    [i \in 1..Len(results) |->
        [mark |-> "ok", tool |-> results[i].tool, text |-> <<>>]]

\* AgentOrchestrator._format_results: one line per result, in order
format_results(results) ==
    [i \in 1..Len(results) |->
        IF results[i].success
        THEN [mark |-> "ok", tool |-> results[i].tool, text |-> results[i].result]
        ELSE [mark |-> "failed", tool |-> results[i].tool,
              text |-> << results[i].error, results[i].error_type >>]]

\* lines 228-240, after the last action of the batch: the answer and the
\* results go to the memory, the iteration goes to the log
EndIteration ==
    /\ pc = "actions"
    /\ action_idx > Len(agent_response.actions)
    /\ memory' = add_message(
                    add_message(memory, max_history,
                        [role |-> "assistant", content |-> agent_response.raw_response]),
                    max_history,
                    [role |-> "system", content |-> format_results(action_results)])
    /\ iterations' = Append(iterations,
                        [iteration |-> iteration,
                         reasoning |-> agent_response.reasoning,
                         actions   |-> agent_response.actions,
                         results   |-> action_results])
    /\ pc' = "loop"
    /\ UNCHANGED << status, error, result, iteration, consecutive_failures,
                    agent_response, action_idx, action_results, events, fs, calls,
                    llm_log >>
    /\ UNCHANGED << svc_vars, ext_vars, side_vars >>

Call(op, exc) ==
    [op |-> op, iteration |-> iteration, idx |-> action_idx,
     action |-> CurrentAction, exc |-> exc]

\* except Exception as e (inner), lines 204-220
ActionFails(exc) ==
    /\ action_results' = Append(action_results,
                            [tool |-> CurrentAction.tool, success |-> FALSE,
                             error |-> exc.msg, error_type |-> exc.type])
    /\ consecutive_failures' = consecutive_failures + 1
    /\ Emit(Event("action_failed", CurrentAction.tool))
    /\ pc' = "check"

\* self.security.validate_action(...) returns
ValidateApprove ==
    /\ pc = "validate"
    /\ validate_action(CurrentAction.tool, CurrentAction.params, WORKSPACE) = NoError
    /\ calls' = Append(calls, Call("validate", NoError))
    /\ pc' = "execute"
    /\ UNCHANGED << status, error, result, iteration, consecutive_failures,
                    agent_response, action_idx, action_results, memory, iterations,
                    events, fs, llm_log >>
    /\ UNCHANGED << svc_vars, ext_vars, side_vars >>

\* ValidateReject with the verdict ignored: the rejection is noted and the
\* tool runs all the same
ValidateReject_ThenExecutes ==
    /\ pc = "validate"
    /\ LET exc == validate_action(CurrentAction.tool, CurrentAction.params, WORKSPACE)
       IN  /\ exc # NoError
           /\ calls' = Append(calls, Call("validate", exc))
    /\ pc' = "execute"
    /\ UNCHANGED << status, error, result, iteration, consecutive_failures,
                    agent_response, action_idx, action_results, memory, iterations,
                    events, fs, llm_log >>
    /\ UNCHANGED << svc_vars, ext_vars, side_vars >>

\* self.security.validate_action(...) raises
ValidateReject ==
    /\ pc = "validate"
    /\ LET exc == validate_action(CurrentAction.tool, CurrentAction.params, WORKSPACE)
       IN  /\ exc # NoError
           /\ calls' = Append(calls, Call("validate", exc))
           /\ ActionFails(exc)
    /\ UNCHANGED << status, error, result, iteration, agent_response, action_idx,
                    memory, iterations, fs, llm_log >>
    /\ UNCHANGED << svc_vars, ext_vars, side_vars >>

\* await self.executor.execute(...) returns: lines 175-188
ExecuteReturns ==
    /\ pc = "execute"
    /\ \E o \in execute(fs, WORKSPACE, CurrentAction.tool, CurrentAction.params) :
          /\ o.exc = NoError
          /\ fs' = o.fs
          /\ calls' = Append(calls, Call("execute", NoError))
          /\ action_results' = Append(action_results,
                                  [tool |-> CurrentAction.tool, success |-> TRUE,
                                   result |-> o.result])
    /\ consecutive_failures' = 0
    /\ Emit(Event("action_success", CurrentAction.tool))
    /\ pc' = "succeeded"
    /\ UNCHANGED << status, error, result, iteration, agent_response, action_idx,
                    memory, iterations, llm_log >>
    /\ UNCHANGED << svc_vars, ext_vars, side_vars >>

\* await self.executor.execute(...) raises
ExecuteRaises ==
    /\ pc = "execute"
    /\ \E o \in execute(fs, WORKSPACE, CurrentAction.tool, CurrentAction.params) :
          /\ o.exc # NoError
          /\ fs' = o.fs
          /\ calls' = Append(calls, Call("execute", o.exc))
          /\ ActionFails(o.exc)
    /\ UNCHANGED << status, error, result, iteration, agent_response, action_idx,
                    memory, iterations, llm_log >>
    /\ UNCHANGED << svc_vars, ext_vars, side_vars >>

\* Complete without the return: the loop goes on to the next action
Complete_Continues ==
    /\ pc = "succeeded"
    /\ CurrentAction.tool = "finish"
    /\ status' = "completed"
    /\ result' = action_results[Len(action_results)].result
    /\ LET r == action_results[Len(action_results)].result
       IN  Emit(Event("task_completed",
                      [success |-> Get(r, "success", TRUE),
                       message |-> Get(r, "message", "Task completed"),
                       summary |-> Get(r, "summary", "{}")]))
    /\ action_idx' = action_idx + 1
    /\ pc' = "actions"
    /\ UNCHANGED << error, iteration, consecutive_failures, agent_response,
                    action_results, memory, iterations, fs, calls, llm_log >>
    /\ UNCHANGED << svc_vars, ext_vars, side_vars >>

\* Complete taken after any tool that succeeded
Complete_OnAnySuccess ==
    /\ pc = "succeeded"
    /\ status' = "completed"
    /\ result' = action_results[Len(action_results)].result
    /\ Emit(Event("task_completed", action_results[Len(action_results)].result))
    /\ pc' = "done"
    /\ UNCHANGED << error, iteration, consecutive_failures, agent_response,
                    action_idx, action_results, memory, iterations, fs, calls,
                    llm_log >>
    /\ UNCHANGED << svc_vars, ext_vars, side_vars >>

\* if tool_name == "finish": lines 191-202
Complete ==
    /\ pc = "succeeded"
    /\ CurrentAction.tool = "finish"
    /\ status' = "completed"
    /\ result' = action_results[Len(action_results)].result
    /\ LET r == action_results[Len(action_results)].result
       IN  Emit(Event("task_completed",
                      [success |-> Get(r, "success", TRUE),
                       message |-> Get(r, "message", "Task completed"),
                       summary |-> Get(r, "summary", "{}")]))
    /\ pc' = "done"
    /\ UNCHANGED << error, iteration, consecutive_failures, agent_response,
                    action_idx, action_results, memory, iterations, fs, calls,
                    llm_log >>
    /\ UNCHANGED << svc_vars, ext_vars, side_vars >>

\* NextAfterSuccess passing over the action that follows
NextAfterSuccess_SkipsOne ==
    /\ pc = "succeeded"
    /\ CurrentAction.tool # "finish"
    /\ action_idx' = action_idx + 2
    /\ pc' = "actions"
    /\ UNCHANGED << status, error, result, iteration, consecutive_failures,
                    agent_response, action_results, memory, iterations, events,
                    fs, calls, llm_log >>
    /\ UNCHANGED << svc_vars, ext_vars, side_vars >>

\* any other tool that succeeded: on to the next action
NextAfterSuccess ==
    /\ pc = "succeeded"
    /\ CurrentAction.tool # "finish"
    /\ action_idx' = action_idx + 1
    /\ pc' = "actions"
    /\ UNCHANGED << status, error, result, iteration, consecutive_failures,
                    agent_response, action_results, memory, iterations, events,
                    fs, calls, llm_log >>
    /\ UNCHANGED << svc_vars, ext_vars, side_vars >>

\* if consecutive_failures >= self.max_failures: raise RuntimeError
AbortOnFailures ==
    /\ pc = "check"
    /\ consecutive_failures >= max_failures
    /\ TaskFails(REASON_TOO_MANY_FAILURES)
    /\ UNCHANGED << result, iteration, consecutive_failures, agent_response,
                    action_idx, action_results, memory, iterations, fs, calls,
                    llm_log >>
    /\ UNCHANGED << svc_vars, ext_vars, side_vars >>

\* NextAfterFailure leaving the batch (break) instead of going on in it
NextAfterFailure_LeavesBatch ==
    /\ pc = "check"
    /\ consecutive_failures < max_failures
    /\ action_idx' = Len(agent_response.actions) + 1
    /\ pc' = "actions"
    /\ UNCHANGED << status, error, result, iteration, consecutive_failures,
                    agent_response, action_results, memory, iterations, events,
                    fs, calls, llm_log >>
    /\ UNCHANGED << svc_vars, ext_vars, side_vars >>

\* below the limit: on to the next action
NextAfterFailure ==
    /\ pc = "check"
    /\ consecutive_failures < max_failures
    /\ action_idx' = action_idx + 1
    /\ pc' = "actions"
    /\ UNCHANGED << status, error, result, iteration, consecutive_failures,
                    agent_response, action_results, memory, iterations, events,
                    fs, calls, llm_log >>
    /\ UNCHANGED << svc_vars, ext_vars, side_vars >>

Next ==
    \/ Begin
    \/ IterationStart
    \/ BudgetExhausted
    \/ LLMRespond
    \/ LLMFail
    \/ Reasoning
    \/ ActionStart
    \/ ActionMalformed
    \/ EndIteration
    \/ ValidateApprove
    \/ ValidateReject
    \/ ExecuteReturns
    \/ ExecuteRaises
    \/ Complete
    \/ NextAfterSuccess
    \/ AbortOnFailures
    \/ NextAfterFailure

Spec == Init /\ [][Next]_vars

\* the points of control of execute_task
PcValues ==
    {"start", "loop", "llm", "reasoning", "actions", "validate", "execute",
     "check", "succeeded", "remember", "summarise", "done"}

\* control leaves the point it is at; every step of Next is such a step
Advance == pc # "done" /\ pc' \in PcValues \ {pc}

\* every await of execute_task returns: control does not rest for ever at a
\* point before the end of the coroutine
FairSpec == Spec /\ WF_pc(Advance)

\* ------------------------------------------------------------------------
\* The inner loop of execute_task (lines 156-226) on one answer of the
\* decision service, the answer and the file system drawn from bounded sets
\* ------------------------------------------------------------------------

\* the longest file content and the longest old_string / new_string drawn
MaxContentLen == 3
MaxEditLen    == 2

ALPHABET == {"a", "b"}

\* the strings over ALPHABET of length n at most
Strs(n) == UNION {[1..k -> ALPHABET] : k \in 0..n}

\* a content of n bytes
Fill(n) == [i \in 1..n |-> "z"]

\* where src/a.py and its backup lie
LocA       == Parts(WORKSPACE \o <<SLASH>> \o P_src_a)
LocABackup == Parts(WORKSPACE \o <<SLASH>> \o P_src_a \o SUFFIX_BACKUP)

\* the file system with src/a.py holding content
FsWithA(content) == [InitFs EXCEPT ![LocA] = FileNode(content)]

Range(seq) == {seq[i] : i \in DOMAIN seq}

A_edit(old, new) ==
    Act("edit_file", [path |-> P_src_a, old_string |-> old, new_string |-> new])

\* read src/a.py, edit it, edit it back
EditInputs ==
    { [fs |-> FsWithA(c), actions |-> <<A_read_a, A_edit(o, n), A_edit(n, o)>>] :
        c \in Strs(MaxContentLen), o \in Strs(MaxEditLen), n \in Strs(MaxEditLen) }

\* first words that are not allowed commands
OtherHeads ==
    { <<"r","m">>,
      <<"s","u","d","o">>,
      <<"s","h">>,
      <<"p","y","t","h","o","n","x">>,
      <<"p","y">> }

\* what follows the first word
CommandTails ==
    { <<>>,
      <<" ","-","q">>,
      <<" ",">"," ","f">>,
      <<" ","|"," ","s","h">>,
      <<" ","&","&"," ","r","m"," ","x">>,
      <<";"," ","r","m"," ","x">>,
      <<";","r","m">>,
      <<" ",BACKQUOTE,"x",BACKQUOTE>>,
      <<" ","$","(","x",")">>,
      <<" ","s","u","d","o"," ","x">>,
      <<" ","c","h","m","o","d"," ","x">>,
      <<" ","r","m"," ","-","r","f"," ","x">>,
      <<" ","<"," ","f">>,
      <<" ","&"," ","r","m"," ","x">>,
      <<"\t","r","m"," ","x">>,
      <<"\n","r","m"," ","x">> }

Commands ==
    { pre \o head \o tail :
        pre  \in {<<>>, <<" ">>},
        head \in Range(ALLOWED_COMMANDS) \cup OtherHeads,
        tail \in CommandTails }
    \cup {<<>>, <<" ">>}

CommandInputs ==
    { [fs |-> InitFs, actions |-> <<Act("run_command", [command |-> cmd])>>] :
        cmd \in Commands }

PathPrefixes ==
    { <<>>,
      <<"s","r","c","/">>,
      <<"t","e","s","t","s","/">>,
      <<".",".","/">>,
      <<"s","r","c","/",".",".","/">>,
      <<"/","w","s","/">>,
      <<"/","w","s","/","s","r","c","/">>,
      <<"/","e","t","c","/">>,
      <<"s","r","c","/","l","n","k","/">> }

PathSegments ==
    Range(BLOCKED_PATHS) \cup
    { <<"a",".","p","y">>,
      <<"e","n","v">>,
      <<".","e","n","v","r","c">>,
      <<"n",".","p","y">> }

PathSuffixes ==
    { <<>>,
      <<"/","c">>,
      <<"/",".",".","/","a",".","p","y">> }

InputPaths ==
    { pre \o seg \o suf :
        pre \in PathPrefixes, seg \in PathSegments, suf \in PathSuffixes }

PathInputs ==
    { [fs |-> InitFs, actions |-> <<Act("read_file", [path |-> p])>>] :
        p \in InputPaths }
    \cup
    { [fs |-> InitFs, actions |-> <<Act("create_file", [path |-> p, content |-> S_x])>>] :
        p \in InputPaths }

\* files and contents around the two size limits
SizeInputs ==
    { [fs |-> FsWithA(Fill(n)), actions |-> <<A_read_a>>] :
        n \in 0..(MAX_FILE_SIZE + 1) }
    \cup
    { [fs |-> InitFs,
       actions |-> <<Act("create_file", [path |-> P_src_b, content |-> Fill(n)])>>] :
        n \in 0..(MAX_CREATE_SIZE + 1) }

\* the contents src/a.py holds before a deletion
DeleteContents == {S_x, S_y}

\* the params of a delete of path: confirm left out, false, true
DeleteParams(path) ==
    {[path |-> path]} \cup {[path |-> path, confirm |-> b] : b \in BOOLEAN}

A_create_a(content) == Act("create_file", [path |-> P_src_a, content |-> content])

\* read src/a.py, delete it, create it anew, read it, delete it again; and a
\* delete of a file that is missing, outside the workspace or outside the
\* allowed directories
DeleteInputs ==
    { [fs |-> FsWithA(c1),
       actions |-> <<A_read_a, Act("delete_file", d1), A_create_a(c2),
                     A_read_a, Act("delete_file", d2)>>] :
        c1 \in DeleteContents, c2 \in DeleteContents,
        d1 \in DeleteParams(P_src_a), d2 \in DeleteParams(P_src_a) }
    \cup
    { [fs |-> InitFs, actions |-> <<Act("delete_file", d)>>] :
        d \in DeleteParams(P_src_none) \cup DeleteParams(P_abs_out)
               \cup DeleteParams(P_a_txt) }

\* a workspace that holds nothing
EmptyWorkspace ==
    ( <<>> :> DirNode @@ Parts(WORKSPACE) :> DirNode )

\* the request "create a.txt with content hi": the decision service answers
\* create(path, "hi") and finish(success=true)
ScenarioInputs ==
    { [fs |-> EmptyWorkspace,
       actions |-> <<Act("create_file", [path |-> p, content |-> S_hi]), A_finish>>] :
        p \in {P_a_txt, P_src_a_txt} }

Inputs ==
    EditInputs \cup CommandInputs \cup PathInputs \cup SizeInputs
    \cup DeleteInputs \cup ScenarioInputs

\* execute_task in its first iteration, at line 156, the answer just received
InputInit ==
    /\ pc = "actions"
    /\ status = "running"
    /\ error = "none"
    /\ result = <<>>
    /\ iteration = 1
    /\ consecutive_failures = 0
    /\ action_idx = 1
    /\ action_results = <<>>
    /\ memory = add_message(<<>>, max_history,
                            [role |-> "user", content |-> USER_REQUEST])
    /\ iterations = <<>>
    /\ events = <<Event("iteration_start", 1)>>
    /\ calls = <<>>
    /\ \E in \in Inputs :
          /\ fs = in.fs
          /\ agent_response = Response("", in.actions, "input")
          /\ llm_log = <<[given |-> memory, answer |-> "input",
                          actions |-> in.actions]>>
    /\ active_tasks = (TASK_ID :> PendingTask)
    /\ ServiceIdle
    /\ ExtensionIdle
    /\ SideIdle

InputNext ==
    \/ ActionStart
    \/ ValidateApprove
    \/ ValidateReject
    \/ ExecuteReturns
    \/ ExecuteRaises
    \/ Complete
    \/ NextAfterSuccess
    \/ NextAfterFailure

InputSpec == InputInit /\ [][InputNext]_vars

\* ------------------------------------------------------------------------
\* routes/agent.py: the task store and the WebSocket handler.  Every
\* connection to /ws/{task_id} builds its own orchestrator and drives its own
\* execute_task loop; a step of a connection runs from one await to the next.
\* Here each answer of the decision service holds at most one action, and an
\* action is known by its outcome alone.
\* ------------------------------------------------------------------------

\* the loop of connection c stands inside execute_task
InLoop(c) == sockets[c].pc \in {"loop", "llm", "tool"}

\* POST /task: create_agent_task
create_agent_task ==
    /\ TASK_ID \notin DOMAIN active_tasks
    /\ active_tasks' = (TASK_ID :> PendingTask)
    /\ UNCHANGED << sockets, cancel_requested >>
    /\ UNCHANGED << task_vars, ext_vars, side_vars >>

\* agent_websocket, lines 926-931: no such task, an error is sent and the
\* socket is closed
WsTaskNotFound(c) ==
    /\ sockets[c].pc = "idle"
    /\ TASK_ID \notin DOMAIN active_tasks
    /\ sockets' = [sockets EXCEPT ![c].pc = "closed"]
    /\ UNCHANGED << active_tasks, cancel_requested >>
    /\ UNCHANGED << task_vars, ext_vars, side_vars >>

\* agent_websocket, lines 933-957, and execute_task, lines 116-127: an
\* orchestrator is built and its loop is entered, whatever the task's status
WsExecute(c) ==
    /\ sockets[c].pc = "idle"
    /\ TASK_ID \in DOMAIN active_tasks
    /\ sockets' = [sockets EXCEPT ![c] =
                      [pc |-> "loop", status |-> "running", iteration |-> 0,
                       consecutive_failures |-> 0, pending |-> "none"]]
    /\ UNCHANGED << active_tasks, cancel_requested >>
    /\ UNCHANGED << task_vars, ext_vars, side_vars >>

\* the outer handler of execute_task and lines 966-968 of agent_websocket
WsTaskFails(c, reason) ==
    /\ sockets' = [sockets EXCEPT ![c].pc = "closed", ![c].status = "failed"]
    /\ active_tasks' = [active_tasks EXCEPT ![TASK_ID].status = "failed",
                                            ![TASK_ID].error = reason]

\* for iteration in range(self.max_iterations): iteration_start is sent
WsIterationStart(c) ==
    /\ sockets[c].pc = "loop"
    /\ sockets[c].iteration < max_iterations
    /\ sockets' = [sockets EXCEPT ![c].pc = "llm",
                                  ![c].iteration = sockets[c].iteration + 1]
    /\ UNCHANGED << active_tasks, cancel_requested >>
    /\ UNCHANGED << task_vars, ext_vars, side_vars >>

\* the for loop is exhausted
WsBudgetExhausted(c) ==
    /\ sockets[c].pc = "loop"
    /\ sockets[c].iteration >= max_iterations
    /\ WsTaskFails(c, REASON_MAX_ITERATIONS)
    /\ UNCHANGED cancel_requested
    /\ UNCHANGED << task_vars, ext_vars, side_vars >>

\* get_next_actions returns: no action, or one that will succeed, fail or
\* be a finish; with an action, action_start is sent and the tool is entered
WsLLMRespond(c) ==
    /\ sockets[c].pc = "llm"
    /\ \E kind \in {"none", "success", "failure", "finish"} :
          sockets' = [sockets EXCEPT
                         ![c].pc = IF kind = "none" THEN "loop" ELSE "tool",
                         ![c].pending = kind]
    /\ UNCHANGED << active_tasks, cancel_requested >>
    /\ UNCHANGED << task_vars, ext_vars, side_vars >>

\* get_next_actions raises
WsLLMFail(c) ==
    /\ sockets[c].pc = "llm"
    /\ WsTaskFails(c, REASON_PARSE)
    /\ UNCHANGED cancel_requested
    /\ UNCHANGED << task_vars, ext_vars, side_vars >>

\* lines 175-188: the action succeeded and was no finish
WsActionSucceeds(c) ==
    /\ sockets[c].pc = "tool"
    /\ sockets[c].pending = "success"
    /\ sockets' = [sockets EXCEPT ![c].pc = "loop", ![c].pending = "none",
                                  ![c].consecutive_failures = 0]
    /\ UNCHANGED << active_tasks, cancel_requested >>
    /\ UNCHANGED << task_vars, ext_vars, side_vars >>

\* lines 204-226: the action failed
WsActionFails(c) ==
    /\ sockets[c].pc = "tool"
    /\ sockets[c].pending = "failure"
    /\ IF sockets[c].consecutive_failures + 1 >= max_failures
       THEN WsTaskFails(c, REASON_TOO_MANY_FAILURES)
       ELSE /\ sockets' = [sockets EXCEPT
                              ![c].pc = "loop", ![c].pending = "none",
                              ![c].consecutive_failures =
                                    sockets[c].consecutive_failures + 1]
            /\ UNCHANGED active_tasks
    /\ UNCHANGED cancel_requested
    /\ UNCHANGED << task_vars, ext_vars, side_vars >>

\* lines 190-202 of execute_task and 962-964 of agent_websocket
WsComplete(c) ==
    /\ sockets[c].pc = "tool"
    /\ sockets[c].pending = "finish"
    /\ sockets' = [sockets EXCEPT ![c].pc = "closed", ![c].status = "completed"]
    /\ active_tasks' = [active_tasks EXCEPT
                           ![TASK_ID].status = "completed",
                           ![TASK_ID].result = [type |-> "task_completed", run |-> c]]
    /\ UNCHANGED cancel_requested
    /\ UNCHANGED << task_vars, ext_vars, side_vars >>

\* the client goes away: send_json raises WebSocketDisconnect (970-971), the
\* generator is dropped where it stands
WsDisconnect(c) ==
    /\ InLoop(c)
    /\ sockets' = [sockets EXCEPT ![c].pc = "closed"]
    /\ UNCHANGED << active_tasks, cancel_requested >>
    /\ UNCHANGED << task_vars, ext_vars, side_vars >>

\* the surrounding system asks for the task to be cancelled while a loop
\* stands between two iterations
RequestCancel ==
    /\ ~cancel_requested
    /\ \E c \in Sockets : sockets[c].pc = "loop"
    /\ cancel_requested' = TRUE
    /\ UNCHANGED << active_tasks, sockets >>
    /\ UNCHANGED << task_vars, ext_vars, side_vars >>

\* the state of a task's own variables before execute_task is entered
TaskIdle ==
    /\ pc = "start"
    /\ status = "pending"
    /\ error = "none"
    /\ result = <<>>
    /\ iteration = 0
    /\ consecutive_failures = 0
    /\ agent_response = NoResponse
    /\ action_idx = 0
    /\ action_results = <<>>
    /\ memory = <<>>
    /\ iterations = <<>>
    /\ events = <<>>
    /\ fs = InitFs
    /\ calls = <<>>
    /\ llm_log = <<>>

\* active_tasks = {} (line 885)
SvcInit ==
    /\ TaskIdle
    /\ active_tasks = <<>>
    /\ ServiceIdle
    /\ ExtensionIdle
    /\ SideIdle

SvcNext ==
    \/ create_agent_task
    \/ RequestCancel
    \/ \E c \in Sockets :
          \/ WsTaskNotFound(c)
          \/ WsExecute(c)
          \/ WsIterationStart(c)
          \/ WsBudgetExhausted(c)
          \/ WsLLMRespond(c)
          \/ WsLLMFail(c)
          \/ WsActionSucceeds(c)
          \/ WsActionFails(c)
          \/ WsComplete(c)
          \/ WsDisconnect(c)

SvcSpec == SvcInit /\ [][SvcNext]_vars

\* ------------------------------------------------------------------------
\* The ConversationMemory of one task under the appends execute_task makes:
\* the request (line 125), then per iteration the answer (line 229) and the
\* summary of the results (lines 230-232).  The loop is taken past
\* max_iterations here so that the memory reaches its cap; an answer is
\* known by the number of its iteration, a summary by that number and an
\* outcome.
\* ------------------------------------------------------------------------

\* the iterations whose messages are appended
MaxRounds == 12

UserMessage == [role |-> "user", content |-> USER_REQUEST]

\* memory = ConversationMemory(max_history=20); memory.add_user_message(...)
MemInit ==
    /\ pc = "remember"
    /\ status = "running"
    /\ error = "none"
    /\ result = <<>>
    /\ iteration = 0
    /\ consecutive_failures = 0
    /\ agent_response = NoResponse
    /\ action_idx = 0
    /\ action_results = <<>>
    /\ memory = add_message(<<>>, max_history, UserMessage)
    /\ iterations = <<>>
    /\ events = <<>>
    /\ fs = InitFs
    /\ calls = <<>>
    /\ llm_log = <<>>
    /\ active_tasks = (TASK_ID :> PendingTask)
    /\ ServiceIdle
    /\ ExtensionIdle
    /\ SideIdle

\* memory.add_assistant_response(agent_response.raw_response)
AddAssistantResponse ==
    /\ pc = "remember"
    /\ iteration < MaxRounds
    /\ iteration' = iteration + 1
    /\ memory' = add_message(memory, max_history,
                             [role |-> "assistant", content |-> iteration + 1])
    /\ pc' = "summarise"
    /\ UNCHANGED << status, error, result, consecutive_failures, agent_response,
                    action_idx, action_results, iterations, events, fs, calls,
                    llm_log >>
    /\ UNCHANGED << svc_vars, ext_vars, side_vars >>

\* memory.add_system_message("Tool execution results: ...")
AddSystemMessage ==
    /\ pc = "summarise"
    /\ \E outcome \in {"ok", "failed"} :
          memory' = add_message(memory, max_history,
                                [role |-> "system",
                                 content |-> [iteration |-> iteration,
                                              outcome |-> outcome]])
    /\ pc' = "remember"
    /\ UNCHANGED << status, error, result, iteration, consecutive_failures,
                    agent_response, action_idx, action_results, iterations,
                    events, fs, calls, llm_log >>
    /\ UNCHANGED << svc_vars, ext_vars, side_vars >>

MemNext ==
    \/ AddAssistantResponse
    \/ AddSystemMessage

MemSpec == MemInit /\ [][MemNext]_vars

\* ------------------------------------------------------------------------
\* The VS Code extension: extension.js (the commands and the status bar),
\* AgentConnection (the WebSocket and its reconnects) and FileSync (what is
\* uploaded).  The model follows the AgentConnection the module's variable
\* connection refers to; one that a later connectCommand or a
\* disconnectCommand has let go of is no longer followed.  A step runs from
\* one callback of the editor's event loop to the next.
\* ------------------------------------------------------------------------

\* AgentConnection.maxReconnectAttempts
maxReconnectAttempts == 5

\* aiAgent.maxFileSize, scaled to the sizes of the files modelled here (the
\* default is 1048576)
maxFileSize == 2

\* the messages followed on one connection
MaxSent == 3

\* fileSync.ts: BLOCKED_PATTERNS
BLOCKED_PATTERNS ==
    << <<".","e","n","v">>,
       <<".","e","n","v",".","*">>,
       <<"*",".","k","e","y">>,
       <<"*",".","p","e","m">>,
       <<"*","*","/","n","o","d","e","_","m","o","d","u","l","e","s","/","*","*">>,
       <<"*","*","/",".","g","i","t","/","*","*">>,
       <<"*","*","/","_","_","p","y","c","a","c","h","e","_","_","/","*","*">>,
       <<"*","*","/",".","v","e","n","v","/","*","*">>,
       <<"*","*","/","v","e","n","v","/","*","*">>,
       <<"*",".","p","y","c">>,
       <<"*",".","p","y","o">> >>

\* the extensions of includePattern in findWorkspaceFiles
INCLUDE_EXTENSIONS ==
    { <<"p","y">>,
      <<"j","s">>,
      <<"t","s">>,
      <<"j","s","x">>,
      <<"t","s","x">>,
      <<"j","s","o","n">>,
      <<"m","d">>,
      <<"t","x","t">>,
      <<"y","a","m","l">>,
      <<"y","m","l">>,
      <<"t","o","m","l">>,
      <<"i","n","i">> }

\* includePattern with its braces expanded
IncludePatterns == {<<"*","*","/","*",".">> \o e : e \in INCLUDE_EXTENSIONS}

\* the workspace folder and the files in it: path below the folder and size
WORKSPACE_FOLDER == <<"/","p","r","o","j">>

WorkspaceFiles ==
    { [path |-> <<"s","r","c","/","a","p","p",".","p","y">>, size |-> 1],
      [path |-> <<".","e","n","v">>, size |-> 1],
      [path |-> <<".","e","n","v",".","l","o","c","a","l">>, size |-> 1],
      [path |-> <<"c","e","r","t","s","/","s",".","k","e","y">>, size |-> 1],
      [path |-> <<"c","e","r","t","s","/","c","a",".","p","e","m">>, size |-> 1],
      [path |-> <<"n","o","d","e","_","m","o","d","u","l","e","s","/","p","/","i",".","j","s">>, size |-> 1],
      [path |-> <<".","g","i","t","/","c","o","n","f","i","g">>, size |-> 1],
      [path |-> <<"c","o","n","f","/",".","e","n","v",".","j","s","o","n">>, size |-> 1],
      [path |-> <<"d","o","c","s","/","b","i","g",".","m","d">>, size |-> maxFileSize + 1],
      [path |-> <<"n","o","t","e","s",".","t","x","t">>, size |-> maxFileSize] }

\* a glob of the editor against a path below the workspace folder: * stays
\* inside one segment, ** crosses segments, **/ also matches no segment
RECURSIVE GlobMatch(_, _, _, _)
GlobMatch(p, i, s, j) ==
    IF i > Len(p) THEN j > Len(s)
    ELSE IF p[i] = "*" /\ i < Len(p) /\ p[i + 1] = "*"
    THEN \/ i + 2 <= Len(p) /\ p[i + 2] = "/" /\ GlobMatch(p, i + 3, s, j)
         \/ \E k \in j..(Len(s) + 1) : GlobMatch(p, i + 2, s, k)
    ELSE IF p[i] = "*"
    THEN \E k \in j..(Len(s) + 1) :
            /\ \A m \in j..(k - 1) : s[m] # "/"
            /\ GlobMatch(p, i + 1, s, k)
    ELSE j <= Len(s) /\ s[j] = p[i] /\ GlobMatch(p, i + 1, s, j + 1)

\* vscode.workspace.findFiles(include, exclude): the files of the folder the
\* include pattern matches and the exclude pattern does not
findFiles(include, exclude) ==
    { f \in WorkspaceFiles :
        /\ \E p \in include : GlobMatch(p, 1, f.path, 1)
        /\ \A b \in 1..Len(exclude) : ~GlobMatch(exclude[b], 1, f.path, 1) }

\* the regular expression isBlocked builds from a pattern: "." stands for
\* itself, "*" for any run of characters, "?" for any one character
RegexOf(pattern) ==
    [i \in DOMAIN pattern |->
        IF pattern[i] = "*" THEN "any run"
        ELSE IF pattern[i] = "?" THEN "any one"
        ELSE pattern[i]]

\* the expression matches s from place j on
RECURSIVE RegexMatchAt(_, _, _, _)
RegexMatchAt(re, i, s, j) ==
    IF i > Len(re) THEN TRUE
    ELSE IF re[i] = "any run"
    THEN \E k \in j..(Len(s) + 1) : RegexMatchAt(re, i + 1, s, k)
    ELSE IF re[i] = "any one"
    THEN j <= Len(s) /\ RegexMatchAt(re, i + 1, s, j + 1)
    ELSE j <= Len(s) /\ s[j] = re[i] /\ RegexMatchAt(re, i + 1, s, j + 1)

\* regex.test(s): the expression matches somewhere in s
RegexTest(re, s) == \E j \in 1..(Len(s) + 1) : RegexMatchAt(re, 1, s, j)

\* uri.fsPath of a file of the folder
fsPath(f) == WORKSPACE_FOLDER \o <<"/">> \o f.path

\* FileSync.isBlocked
isBlocked(filePath) ==
    LET normalizedPath ==
            [i \in DOMAIN filePath |->
                IF filePath[i] = "\\" THEN "/" ELSE filePath[i]]
    IN  \E b \in 1..Len(BLOCKED_PATTERNS) :
            RegexTest(RegexOf(BLOCKED_PATTERNS[b]), normalizedPath)

\* FileSync.getRelativePath
getRelativePath(base, target) == SubSeq(target, Len(base) + 2, Len(target))

\* FileInfo of a file: its path below the folder and its text
FileInfo(f) ==
    [path |-> getRelativePath(WORKSPACE_FOLDER, fsPath(f)), content |-> Fill(f.size)]

\* FileSync.findWorkspaceFiles
findWorkspaceFiles ==
    { FileInfo(f) : f \in { g \in findFiles(IncludePatterns, BLOCKED_PATTERNS) :
                                g.size <= maxFileSize /\ ~isBlocked(fsPath(g)) } }

\* AgentConnection.isConnected, asked of the module's connection
isConnected == connection = "object" /\ webSocket = "open"

\* AgentConnection.uploadFiles
FileUpload(files) == [type |-> "file_upload", files |-> files]

\* AgentConnection.requestAgent: the context names the active file and says
\* whether a selection goes with it
AgentRequest(active_file, selection) ==
    [type |-> "agent_request", active_file |-> active_file, selection |-> selection]

\* the variables of the keep-alive timers and of the file_changed handler
ping_vars == << pingTimers, ticked, intervalPings >>
diff_vars == << document, prompts, changes >>

\* the connect commands followed
MaxConnects == 2

\* AgentConnection.ping
Ping == [type |-> "ping"]

\* connectCommand up to await connection.connect(): a new AgentConnection
\* opens a WebSocket; setupEventHandlers starts one more 30 s interval timer,
\* which fires first 30 s from now
connectCommand ==
    /\ awaiting = "none"
    /\ ~isConnected
    /\ pingTimers < MaxConnects
    /\ connection' = "object"
    /\ webSocket' = "connecting"
    /\ reconnectAttempts' = 0
    /\ reconnectTimer' = FALSE
    /\ retries' = 0
    /\ pingTimers' = pingTimers + 1
    /\ ticked' = ticked + 1
    /\ awaiting' = "connect"
    /\ UNCHANGED << statusBarItem, sent, intervalPings, diff_vars >>
    /\ UNCHANGED << task_vars, svc_vars, side_vars >>

\* ws.on('open'): the attempts start afresh and connect() resolves; a
\* connectCommand suspended on it sets the status bar and, with
\* aiAgent.autoUpload, goes on to upload the workspace
WsOpen ==
    /\ webSocket = "connecting"
    /\ webSocket' = "open"
    /\ reconnectAttempts' = 0
    /\ retries' = 0
    /\ IF awaiting = "connect"
       THEN /\ statusBarItem' = TEXT_CHECK
            /\ \E autoUpload \in BOOLEAN :
                  awaiting' = IF autoUpload THEN "upload" ELSE "none"
       ELSE UNCHANGED << statusBarItem, awaiting >>
    /\ UNCHANGED << connection, reconnectTimer, sent, ping_vars, diff_vars >>
    /\ UNCHANGED << task_vars, svc_vars, side_vars >>

\* Closed with the attempts compared by <=: one reconnect too many
Closed_OneMore ==
    /\ webSocket' = "null"
    /\ IF reconnectAttempts <= maxReconnectAttempts
       THEN /\ reconnectAttempts' = reconnectAttempts + 1
            /\ reconnectTimer' = TRUE
       ELSE UNCHANGED << reconnectAttempts, reconnectTimer >>

\* the close handler: this.ws = null, and a reconnect is scheduled while
\* attempts are left
Closed ==
    /\ webSocket' = "null"
    /\ IF reconnectAttempts < maxReconnectAttempts
       THEN /\ reconnectAttempts' = reconnectAttempts + 1
            /\ reconnectTimer' = TRUE
       ELSE UNCHANGED << reconnectAttempts, reconnectTimer >>

\* ws.on('error') then ws.on('close') of a socket that could not be opened:
\* connect() rejects, a connectCommand suspended on it reports the failure
WsError ==
    /\ webSocket = "connecting"
    /\ Closed
    /\ awaiting' = IF awaiting = "connect" THEN "none" ELSE awaiting
    /\ UNCHANGED << connection, statusBarItem, sent, retries, ping_vars, diff_vars >>
    /\ UNCHANGED << task_vars, svc_vars, side_vars >>

\* ws.on('close') of an open socket: the server or the network ends it
WsClose ==
    /\ webSocket = "open"
    /\ Closed
    /\ UNCHANGED << connection, statusBarItem, awaiting, sent, retries, ping_vars,
                    diff_vars >>
    /\ UNCHANGED << task_vars, svc_vars, side_vars >>

\* setTimeout(() => this.connect(), this.reconnectDelay) fires
ReconnectTimer ==
    /\ reconnectTimer
    /\ reconnectTimer' = FALSE
    /\ IF webSocket = "open"
       THEN UNCHANGED << webSocket, retries >>
       ELSE /\ webSocket' = "connecting"
            /\ retries' = retries + 1
    /\ UNCHANGED << connection, reconnectAttempts, statusBarItem, awaiting, sent,
                    ping_vars, diff_vars >>
    /\ UNCHANGED << task_vars, svc_vars, side_vars >>

\* the 10 s timer of connect(): the socket is not open yet, connect()
\* rejects and connectCommand reports the failure; the socket is left alone
ConnectTimeout ==
    /\ awaiting = "connect"
    /\ webSocket = "connecting"
    /\ awaiting' = "none"
    /\ UNCHANGED << connection, webSocket, reconnectAttempts, reconnectTimer,
                    statusBarItem, sent, retries, ping_vars, diff_vars >>
    /\ UNCHANGED << task_vars, svc_vars, side_vars >>

\* FileSync.uploadWorkspace: nothing is sent when no file is found, send
\* throws when the socket is not open
uploadWorkspace ==
    IF findWorkspaceFiles # {} /\ isConnected
    THEN sent' = Append(sent, FileUpload(findWorkspaceFiles))
    ELSE UNCHANGED sent

\* connectCommand after the status bar: await fileSync.uploadWorkspace()
AutoUpload ==
    /\ awaiting = "upload"
    /\ Len(sent) < MaxSent
    /\ uploadWorkspace
    /\ awaiting' = "none"
    /\ UNCHANGED << connection, webSocket, reconnectAttempts, reconnectTimer,
                    statusBarItem, retries, ping_vars, diff_vars >>
    /\ UNCHANGED << task_vars, svc_vars, side_vars >>

\* disconnectCommand: AgentConnection.disconnect, then the module lets go of
\* the connection and sets the status bar; the interval timers stay
disconnectCommand ==
    /\ connection = "object"
    /\ IF webSocket # "null"
       THEN /\ reconnectAttempts' = maxReconnectAttempts
            /\ webSocket' = "null"
       ELSE UNCHANGED << reconnectAttempts, webSocket >>
    /\ connection' = "null"
    /\ reconnectTimer' = FALSE
    /\ awaiting' = "none"
    /\ statusBarItem' = TEXT_PLUG
    /\ UNCHANGED << sent, retries, ping_vars, diff_vars >>
    /\ UNCHANGED << task_vars, svc_vars, side_vars >>

\* uploadFilesCommand
uploadFilesCommand ==
    /\ isConnected
    /\ Len(sent) < MaxSent
    /\ uploadWorkspace
    /\ UNCHANGED << connection, webSocket, reconnectAttempts, reconnectTimer,
                    statusBarItem, awaiting, retries, ping_vars, diff_vars >>
    /\ UNCHANGED << task_vars, svc_vars, side_vars >>

\* FileSync.uploadActiveFile: the document of the active editor is uploaded
uploadActiveFile(f) == FileUpload({FileInfo(f)})

\* FileSync.uploadSelection: the whole document of the active editor is
\* uploaded, the selected text goes into the request
uploadSelection(f) == FileUpload({FileInfo(f)})

\* askCommand with a file of the folder in the active editor, or with no
\* editor open: the file is uploaded, then the request is made
askCommand ==
    /\ isConnected
    /\ \/ /\ Len(sent) + 2 <= MaxSent
          /\ \E f \in WorkspaceFiles :
                sent' = sent \o << uploadActiveFile(f), AgentRequest(f.path, FALSE) >>
       \/ /\ Len(sent) < MaxSent
          /\ sent' = Append(sent, AgentRequest(<<>>, FALSE))
    /\ UNCHANGED << connection, webSocket, reconnectAttempts, reconnectTimer,
                    statusBarItem, awaiting, retries, ping_vars, diff_vars >>
    /\ UNCHANGED << task_vars, svc_vars, side_vars >>

\* askSelectionCommand with a selection in a file of the folder
askSelectionCommand ==
    /\ isConnected
    /\ Len(sent) + 2 <= MaxSent
    /\ \E f \in WorkspaceFiles :
          sent' = sent \o << uploadSelection(f), AgentRequest(f.path, TRUE) >>
    /\ UNCHANGED << connection, webSocket, reconnectAttempts, reconnectTimer,
                    statusBarItem, awaiting, retries, ping_vars, diff_vars >>
    /\ UNCHANGED << task_vars, svc_vars, side_vars >>

\* one interval timer of setupEventHandlers fires: a ping is sent when the
\* module's connection is open, nothing happens otherwise
PingTick ==
    /\ ticked < pingTimers
    /\ isConnected => Len(sent) < MaxSent
    /\ ticked' = ticked + 1
    /\ IF isConnected
       THEN /\ sent' = Append(sent, Ping)
            /\ intervalPings' = intervalPings + 1
       ELSE UNCHANGED << sent, intervalPings >>
    /\ UNCHANGED << connection, webSocket, reconnectAttempts, reconnectTimer,
                    statusBarItem, awaiting, retries, pingTimers, diff_vars >>
    /\ UNCHANGED << task_vars, svc_vars, side_vars >>

\* 30 s have passed in which every timer has fired once
NextInterval ==
    /\ pingTimers > 0
    /\ ticked = pingTimers
    /\ ticked' = 0
    /\ intervalPings' = 0
    /\ UNCHANGED << connection, webSocket, reconnectAttempts, reconnectTimer,
                    statusBarItem, awaiting, sent, retries, pingTimers, diff_vars >>
    /\ UNCHANGED << task_vars, svc_vars, side_vars >>

\* activate(): nothing connected, the task and the service not in play
ExtInit ==
    /\ TaskIdle
    /\ active_tasks = <<>>
    /\ ServiceIdle
    /\ ExtensionIdle
    /\ SideIdle

ExtNext ==
    \/ connectCommand
    \/ WsOpen
    \/ WsError
    \/ WsClose
    \/ ReconnectTimer
    \/ ConnectTimeout
    \/ AutoUpload
    \/ disconnectCommand
    \/ uploadFilesCommand
    \/ askCommand
    \/ askSelectionCommand
    \/ PingTick
    \/ NextInterval

ExtSpec == ExtInit /\ [][ExtNext]_vars

\* ------------------------------------------------------------------------
\* The file_changed handler of setupEventHandlers, on a connected extension:
\* showDiffAndApply asks before it writes, applyChanges writes.  A step runs
\* from the arrival of a message, or from the user's answer, to the end of
\* the handler.
\* ------------------------------------------------------------------------

\* the file_changed messages followed
MaxChanges == 3

\* message.content of the messages
NewTexts == {"edit-1", "edit-2"}

\* what showQuickPick resolves to: one of its two items, or undefined when
\* the pick is dismissed
APPLY     == "apply"
CANCEL    == "cancel"
DISMISSED == "undefined"

\* the file after applyChanges: the whole text is replaced and saved
applyChanges(text, newContent) == newContent

\* showDiffAndApply after the quick pick with every answer but cancel
\* taken as a yes
afterQuickPick_UnlessCancelled(text, choice, newContent) ==
    IF choice # CANCEL THEN applyChanges(text, newContent) ELSE text

\* showDiffAndApply after the quick pick, lines 326-328
afterQuickPick(text, choice, newContent) ==
    IF choice = APPLY THEN applyChanges(text, newContent) ELSE text

\* a file_changed message arrives: with aiAgent.showDiff the diff and the
\* quick pick are shown, without it the text is written at once; a path the
\* editor cannot open makes openTextDocument reject, which the handler logs
FileChanged ==
    /\ webSocket = "open"
    /\ Len(changes) < MaxChanges
    /\ \E showDiff \in BOOLEAN, newContent \in NewTexts, found \in BOOLEAN :
          LET change(outcome) ==
                  [content |-> newContent, showDiff |-> showDiff, outcome |-> outcome]
          IN  IF ~found
              THEN /\ changes' = Append(changes, change("failed"))
                   /\ UNCHANGED << document, prompts >>
              ELSE IF showDiff
              THEN /\ changes' = Append(changes, change("asked"))
                   /\ prompts' = Append(prompts, [change |-> Len(changes) + 1,
                                                  content |-> newContent])
                   /\ UNCHANGED document
              ELSE /\ changes' = Append(changes, change("applied"))
                   /\ document' = applyChanges(document, newContent)
                   /\ UNCHANGED prompts
    /\ UNCHANGED << connection, webSocket, reconnectAttempts, reconnectTimer,
                    statusBarItem, awaiting, sent, retries, ping_vars >>
    /\ UNCHANGED << task_vars, svc_vars, side_vars >>

\* the user answers a quick pick that is waiting
QuickPick ==
    /\ \E k \in DOMAIN prompts, choice \in {APPLY, CANCEL, DISMISSED} :
          /\ prompts' = [i \in 1..(Len(prompts) - 1) |->
                            IF i < k THEN prompts[i] ELSE prompts[i + 1]]
          /\ document' = afterQuickPick(document, choice, prompts[k].content)
          /\ changes' = [changes EXCEPT ![prompts[k].change].outcome =
                            IF choice = APPLY THEN "applied" ELSE choice]
    /\ UNCHANGED << connection, webSocket, reconnectAttempts, reconnectTimer,
                    statusBarItem, awaiting, sent, retries, ping_vars >>
    /\ UNCHANGED << task_vars, svc_vars, side_vars >>

\* the extension after a connect command whose socket has opened
DiffInit ==
    /\ TaskIdle
    /\ active_tasks = <<>>
    /\ ServiceIdle
    /\ connection = "object"
    /\ webSocket = "open"
    /\ reconnectAttempts = 0
    /\ reconnectTimer = FALSE
    /\ statusBarItem = TEXT_CHECK
    /\ awaiting = "none"
    /\ sent = <<>>
    /\ retries = 0
    /\ pingTimers = 1
    /\ ticked = 1
    /\ intervalPings = 0
    /\ document = ORIGINAL_TEXT
    /\ prompts = <<>>
    /\ changes = <<>>
    /\ SideIdle

DiffNext ==
    \/ FileChanged
    \/ QuickPick

DiffSpec == DiffInit /\ [][DiffNext]_vars

\* ------------------------------------------------------------------------
\* scripts/deploy_to_server.sh from the backup on (the local tests, the git
\* check and the SSH test have passed).  The script runs under set -e; a step
\* is one command of the script, a remote script counting as one command.
\* ------------------------------------------------------------------------

\* MAX_RETRIES of the health check
MAX_RETRIES == 5

\* the archives the backup directory can hold before the script runs
EarlierBackups == { <<>>, <<"older">>, <<"oldest", "older">> }

Say(line) == output' = Append(output, line)

\* exit: the script ends with the status
Exit(code) ==
    /\ exit_status' = code
    /\ step' = "exited"

\* lines 68-83: with BACKUP_BEFORE_DEPLOY and SERVER_PATH present an archive
\* of it is made (a tar that fails is passed over); archives older than 7
\* days are deleted
Backup ==
    /\ step = "backup"
    /\ \E BACKUP_BEFORE_DEPLOY \in BOOLEAN, tarred \in BOOLEAN, expired \in 0..Len(backups) :
          LET kept == SubSeq(backups, expired + 1, Len(backups))
          IN  backups' = IF BACKUP_BEFORE_DEPLOY /\ release # "none"
                         THEN IF tarred THEN Append(kept, release) ELSE kept
                         ELSE backups
    /\ step' = "sync"
    /\ UNCHANGED << attempt, containers, release, exit_status, output >>
    /\ UNCHANGED << task_vars, svc_vars, ext_vars, conn_vars, history_vars >>

\* lines 85-103: rsync copies the new release to SERVER_PATH
Sync ==
    /\ step = "sync"
    /\ release' = "new"
    /\ step' = "deploy"
    /\ UNCHANGED << attempt, containers, backups, exit_status, output >>
    /\ UNCHANGED << task_vars, svc_vars, ext_vars, conn_vars, history_vars >>

\* rsync fails: exit 1, with the files copied so far left on the server
SyncFails ==
    /\ step = "sync"
    /\ \E copied \in BOOLEAN : release' = IF copied THEN "new" ELSE release
    /\ Exit(1)
    /\ UNCHANGED << attempt, containers, backups, output >>
    /\ UNCHANGED << task_vars, svc_vars, ext_vars, conn_vars, history_vars >>

\* lines 105-128: the image is built and the containers are restarted
Deploy ==
    /\ step = "deploy"
    /\ containers' = "new"
    /\ step' = "health"
    /\ UNCHANGED << attempt, release, backups, exit_status, output >>
    /\ UNCHANGED << task_vars, svc_vars, ext_vars, conn_vars, history_vars >>

\* the remote script runs under set -e: a build that fails leaves the
\* containers as they were, an up that fails leaves them down; the local
\* script ends with the status of ssh
DeployFails ==
    /\ step = "deploy"
    /\ \E built \in BOOLEAN : containers' = IF built THEN "down" ELSE containers
    /\ Exit(1)
    /\ UNCHANGED << attempt, release, backups, output >>
    /\ UNCHANGED << task_vars, svc_vars, ext_vars, conn_vars, history_vars >>

\* lines 135-143 and 168-169: one turn of the loop, the curl succeeds or not
HealthCheck ==
    /\ step = "health"
    /\ attempt < MAX_RETRIES
    /\ attempt' = attempt + 1
    /\ \E healthy \in BOOLEAN :
          IF healthy
          THEN /\ Say("health check ok")
               /\ step' = "report"
          ELSE IF attempt + 1 = MAX_RETRIES
          THEN /\ Say("health check failed")
               /\ step' = "rollback"
          ELSE /\ UNCHANGED output
               /\ step' = "health"
    /\ UNCHANGED << containers, release, backups, exit_status >>
    /\ UNCHANGED << task_vars, svc_vars, ext_vars, conn_vars, history_vars >>

\* lines 145-166: the containers are stopped; when the backup directory holds
\* an archive the newest one is unpacked over SERVER_PATH and the containers
\* are started; exit 1
Rollback ==
    /\ step = "rollback"
    /\ IF backups # <<>>
       THEN /\ release' = backups[Len(backups)]
            /\ containers' = backups[Len(backups)]
       ELSE /\ containers' = "down"
            /\ UNCHANGED release
    /\ Exit(1)
    /\ UNCHANGED << attempt, backups, output >>
    /\ UNCHANGED << task_vars, svc_vars, ext_vars, conn_vars, history_vars >>

\* lines 172-186: the deployment is reported as done
Report ==
    /\ step = "report"
    /\ Say("deployed")
    /\ Exit(0)
    /\ UNCHANGED << attempt, containers, release, backups >>
    /\ UNCHANGED << task_vars, svc_vars, ext_vars, conn_vars, history_vars >>

\* the script at the backup: a server that runs a release, or one that has
\* none yet
DeployInit ==
    /\ TaskIdle
    /\ active_tasks = <<>>
    /\ ServiceIdle
    /\ ExtensionIdle
    /\ ConnectionNew
    /\ HistoryNew
    /\ step = "backup"
    /\ attempt = 0
    /\ release \in {"none", "old"}
    /\ containers = IF release = "old" THEN "old" ELSE "down"
    /\ backups \in EarlierBackups
    /\ exit_status = "none"
    /\ output = <<>>

DeployNext ==
    \/ Backup
    \/ Sync
    \/ SyncFails
    \/ Deploy
    \/ DeployFails
    \/ HealthCheck
    \/ Rollback
    \/ Report

DeploySpec == DeployInit /\ [][DeployNext]_vars

\* ------------------------------------------------------------------------
\* One AgentConnection under the calls its class offers: connect() and
\* disconnect() called by any user of the object, the reconnect timers, and
\* the open and close events of every WebSocket it has made.  A step is one
\* call or one callback.
\* ------------------------------------------------------------------------

\* the WebSockets one AgentConnection makes
MaxCreated == 3

\* WebSocket.readyState
CONNECTING == "CONNECTING"
OPEN       == "OPEN"
CLOSING    == "CLOSING"
CLOSED     == "CLOSED"

\* AgentConnection.isConnected of the object followed here
this_isConnected == this_ws # 0 /\ readyState[this_ws] = OPEN

\* AgentConnection.connect: nothing when this.ws is open; else a session id
\* is generated and this.ws becomes a new WebSocket
connect ==
    IF this_isConnected
    THEN UNCHANGED << this_ws, readyState, this_sessionId >>
    ELSE /\ Len(readyState) < MaxCreated
         /\ this_sessionId' = this_sessionId + 1
         /\ readyState' = Append(readyState, CONNECTING)
         /\ this_ws' = Len(readyState) + 1

\* a user of the object calls connect()
ConnectCall ==
    /\ connect
    /\ disconnected' = FALSE
    /\ UNCHANGED << this_reconnectAttempts, timers, messageHandlers, arrived, handled >>
    /\ UNCHANGED << task_vars, svc_vars, ext_vars, deploy_vars, history_vars >>

\* setTimeout(() => this.connect(), this.reconnectDelay) of a close handler
\* fires
ReconnectFires ==
    /\ timers > 0
    /\ timers' = timers - 1
    /\ connect
    /\ UNCHANGED << this_reconnectAttempts, messageHandlers, arrived, handled,
                    disconnected >>
    /\ UNCHANGED << task_vars, svc_vars, ext_vars, deploy_vars, history_vars >>

\* ws.on('open') of socket i
OpenEvent(i) ==
    /\ readyState[i] = CONNECTING
    /\ readyState' = [readyState EXCEPT ![i] = OPEN]
    /\ this_reconnectAttempts' = 0
    /\ UNCHANGED << this_ws, timers, this_sessionId, messageHandlers, arrived,
                    handled, disconnected >>
    /\ UNCHANGED << task_vars, svc_vars, ext_vars, deploy_vars, history_vars >>

\* ws.on('close') of socket i, after an error, a close by the server or
\* ws.close(): this.ws = null, and a reconnect is scheduled while attempts
\* are left
CloseEvent(i) ==
    /\ readyState[i] # CLOSED
    /\ readyState' = [readyState EXCEPT ![i] = CLOSED]
    /\ this_ws' = 0
    /\ IF this_reconnectAttempts < maxReconnectAttempts
       THEN /\ this_reconnectAttempts' = this_reconnectAttempts + 1
            /\ timers' = timers + 1
       ELSE UNCHANGED << this_reconnectAttempts, timers >>
    /\ UNCHANGED << this_sessionId, messageHandlers, arrived, handled, disconnected >>
    /\ UNCHANGED << task_vars, svc_vars, ext_vars, deploy_vars, history_vars >>

\* AgentConnection.disconnect: with a socket in this.ws the attempts are
\* used up, the socket is closed and let go of; nothing otherwise
disconnect ==
    /\ IF this_ws # 0
       THEN /\ this_reconnectAttempts' = maxReconnectAttempts
            /\ readyState' = [readyState EXCEPT ![this_ws] = CLOSING]
            /\ this_ws' = 0
       ELSE UNCHANGED << this_reconnectAttempts, readyState, this_ws >>
    /\ disconnected' = TRUE
    /\ UNCHANGED << timers, this_sessionId, messageHandlers, arrived, handled >>
    /\ UNCHANGED << task_vars, svc_vars, ext_vars, deploy_vars, history_vars >>

\* new AgentConnection(serverUrl, outputChannel)
ConnInit ==
    /\ TaskIdle
    /\ active_tasks = <<>>
    /\ ServiceIdle
    /\ ExtensionIdle
    /\ SideIdle

ConnNext ==
    \/ ConnectCall
    \/ ReconnectFires
    \/ disconnect
    \/ \E i \in DOMAIN readyState :
          \/ OpenEvent(i)
          \/ CloseEvent(i)

ConnSpec == ConnInit /\ [][ConnNext]_vars

\* ------------------------------------------------------------------------
\* connection.ts: the message handlers of an AgentConnection whose socket is
\* open.  messageHandlers is a Map, kept as its entries in insertion order;
\* arrived is the log of the on and off calls and of the message events in
\* the order they happened, handled the calls made to handlers.
\* ------------------------------------------------------------------------

MaxArrived == 4

\* the message types handlers are registered for, and one nobody registers
HandledTypes == {"file_changed", "error"}
MessageTypes == HandledTypes \cup {"agent_thinking"}

\* the handlers; the last one throws when called
Handlers == {"h1", "h2", "h_throws"}
Throws(h) == h = "h_throws"

\* what a socket can deliver: a text that is no JSON, the JSON text null,
\* and a JSON object with a type
NotJson == [json |-> FALSE]
JsonNull == [json |-> TRUE, value |-> [null |-> TRUE]]
JsonMessage(type) == [json |-> TRUE, value |-> [type |-> type]]
Data == {NotJson, JsonNull} \cup {JsonMessage(t) : t \in MessageTypes}

\* Map.get: the value of the entry with that key, or undefined
Map_get(map, key) ==
    IF \E i \in 1..Len(map) : map[i].key = key
    THEN map[CHOOSE i \in 1..Len(map) : map[i].key = key].value
    ELSE "undefined"

\* Map.set: the value of the entry with that key is replaced, or a new entry
\* is added at the end
Map_set(map, key, value) ==
    IF \E i \in 1..Len(map) : map[i].key = key
    THEN [i \in 1..Len(map) |->
             IF map[i].key = key THEN [key |-> key, value |-> value] ELSE map[i]]
    ELSE Append(map, [key |-> key, value |-> value])

\* Map.delete
Map_delete(map, key) == SelectSeq(map, LAMBDA e : e.key # key)

\* on with an array in place of the Map: the handler is added at the end
on_Appends(handlers, messageType, handler) ==
    Append(handlers, [key |-> messageType, value |-> handler])

\* AgentConnection.on
on(handlers, messageType, handler) == Map_set(handlers, messageType, handler)

\* AgentConnection.off
off(handlers, messageType) == Map_delete(handlers, messageType)

\* AgentConnection.handleMessage: the calls it makes to handlers.  A handler
\* that throws has been called; its exception is caught and logged.
handleMessage(handlers, message) ==
    LET handler == Map_get(handlers, message.type)
    IN  IF handler # "undefined"
        THEN << [handler |-> handler, message |-> message] >>
        ELSE << >>

\* ws.on('message'), lines 59-66: JSON.parse throws on a text that is no
\* JSON, and handleMessage throws on null when it reads message.type; both
\* are caught and logged here
onMessage(handlers, data) ==
    IF ~data.json THEN << >>
    ELSE IF data.value = JsonNull.value THEN << >>
    ELSE handleMessage(handlers, data.value)

OnCall(messageType, handler) ==
    /\ Len(arrived) < MaxArrived
    /\ messageHandlers' = on(messageHandlers, messageType, handler)
    /\ arrived' = Append(arrived, [op |-> "on", type |-> messageType,
                                   handler |-> handler])
    /\ UNCHANGED << this_ws, readyState, this_reconnectAttempts, timers,
                    this_sessionId, handled, disconnected >>
    /\ UNCHANGED << task_vars, svc_vars, ext_vars, deploy_vars, history_vars >>

OffCall(messageType) ==
    /\ Len(arrived) < MaxArrived
    /\ messageHandlers' = off(messageHandlers, messageType)
    /\ arrived' = Append(arrived, [op |-> "off", type |-> messageType])
    /\ UNCHANGED << this_ws, readyState, this_reconnectAttempts, timers,
                    this_sessionId, handled, disconnected >>
    /\ UNCHANGED << task_vars, svc_vars, ext_vars, deploy_vars, history_vars >>

\* the 'message' event of the open socket
MessageEvent(data) ==
    /\ Len(arrived) < MaxArrived
    /\ this_isConnected
    /\ handled' = handled \o onMessage(messageHandlers, data)
    /\ arrived' = Append(arrived, [op |-> "message", data |-> data])
    /\ UNCHANGED << this_ws, readyState, this_reconnectAttempts, timers,
                    this_sessionId, messageHandlers, disconnected >>
    /\ UNCHANGED << task_vars, svc_vars, ext_vars, deploy_vars, history_vars >>

\* a connection after connect() and the 'open' event of its socket
HandlerInit ==
    /\ TaskIdle
    /\ active_tasks = <<>>
    /\ ServiceIdle
    /\ ExtensionIdle
    /\ DeployIdle
    /\ HistoryNew
    /\ this_ws = 1
    /\ readyState = <<OPEN>>
    /\ this_reconnectAttempts = 0
    /\ timers = 0
    /\ this_sessionId = 0
    /\ messageHandlers = <<>>
    /\ arrived = <<>>
    /\ handled = <<>>
    /\ disconnected = FALSE

HandlerNext ==
    \/ \E t \in HandledTypes, h \in Handlers : OnCall(t, h)
    \/ \E t \in HandledTypes : OffCall(t)
    \/ \E d \in Data : MessageEvent(d)

HandlerSpec == HandlerInit /\ [][HandlerNext]_vars

\* ------------------------------------------------------------------------
\* connection.ts: ChatHistory.  Every method runs to its end before the next
\* is called.  _generateId gives out ids that were not given out before; the
\* number of the id also stands for the time of the call.  The file holds
\* the JSON text of the sessions, in which a Date is its ISO string.
\* ------------------------------------------------------------------------

\* sessions.slice(-100), scaled
SessionLimit == 2

MaxIds == 4
MaxMessages == 2

Roles == {"user", "assistant"}
Contents == {"hello"}

Date(t) == [date |-> t]
IsoString(t) == [iso |-> t]

\* JSON.stringify of a message and of a session: a Date becomes its ISO string
StringifyMessage(msg) == [msg EXCEPT !.timestamp = IsoString(msg.timestamp.date)]

StringifySession(session) ==
    [session EXCEPT
        !.createdAt = IsoString(session.createdAt.date),
        !.updatedAt = IsoString(session.updatedAt.date),
        !.messages = [k \in 1..Len(session.messages) |->
                         StringifyMessage(session.messages[k])]]

JSON_stringify(sessions) ==
    [k \in 1..Len(sessions) |-> StringifySession(sessions[k])]

\* lines 1384-1392: the Date objects are made again from the parsed strings
ReviveMessage(msg) == [msg EXCEPT !.timestamp = Date(msg.timestamp.iso)]

ReviveSession(session) ==
    [session EXCEPT
        !.createdAt = Date(session.createdAt.iso),
        !.updatedAt = Date(session.updatedAt.iso),
        !.messages = [k \in 1..Len(session.messages) |->
                         ReviveMessage(session.messages[k])]]

\* ChatHistory.loadAllSessions
loadAllSessions(file) ==
    IF ~file.exists THEN << >>
    ELSE [k \in 1..Len(file.text) |-> ReviveSession(file.text[k])]

\* fs.writeFileSync(this.historyPath, JSON.stringify(sessions, null, 2))
writeFileSync(sessions) == [exists |-> TRUE, text |-> JSON_stringify(sessions)]

\* Array.findIndex by session id; 0 stands for -1
findIndex(sessions, id) ==
    IF \E k \in 1..Len(sessions) : sessions[k].id = id
    THEN CHOOSE k \in 1..Len(sessions) :
            /\ sessions[k].id = id
            /\ \A j \in 1..(k - 1) : sessions[j].id # id
    ELSE 0

\* Array.slice(-n)
SliceLast(sessions, n) ==
    IF Len(sessions) <= n THEN sessions
    ELSE SubSeq(sessions, Len(sessions) - n + 1, Len(sessions))

\* the object createSession makes, with the id and the time of the call
NewSession(id) ==
    [id |-> id, messages |-> << >>, createdAt |-> Date(id), updatedAt |-> Date(id)]

\* saveSession that adds the session without looking for its id
Saved_AlwaysPushed(file, session) ==
    writeFileSync(SliceLast(Append(loadAllSessions(file), session), SessionLimit))

\* the file saveSession writes
Saved(file, session) ==
    LET sessions == loadAllSessions(file)
        index    == findIndex(sessions, session.id)
        updated  == IF index > 0
                    THEN [sessions EXCEPT ![index] = session]
                    ELSE Append(sessions, session)
    IN  writeFileSync(SliceLast(updated, SessionLimit))

\* ChatHistory.createSession
createSession ==
    /\ nextId < MaxIds
    /\ nextId' = nextId + 1
    /\ currentSession' = NewSession(nextId + 1)
    /\ lastCall' = [op |-> "createSession"]
    /\ UNCHANGED historyFile
    /\ UNCHANGED << task_vars, svc_vars, ext_vars, conn_vars, deploy_vars >>

\* ChatHistory.addMessage: a session is made first when there is none
addMessage(role, content) ==
    LET made    == currentSession = null
        session == IF made THEN NewSession(nextId + 1) ELSE currentSession
        id      == IF made THEN nextId + 2 ELSE nextId + 1
        message == [id |-> id, role |-> role, content |-> content,
                    timestamp |-> Date(id)]
    IN  /\ id <= MaxIds
        /\ Len(session.messages) < MaxMessages
        /\ nextId' = id
        /\ currentSession' = [session EXCEPT
                                 !.messages = Append(session.messages, message),
                                 !.updatedAt = Date(id)]
        /\ lastCall' = [op |-> "addMessage"]
        /\ UNCHANGED historyFile
        /\ UNCHANGED << task_vars, svc_vars, ext_vars, conn_vars, deploy_vars >>

\* ChatHistory.saveSession
saveSession ==
    /\ IF currentSession = null
       THEN UNCHANGED historyFile
       ELSE historyFile' = Saved(historyFile, currentSession)
    /\ lastCall' = [op |-> "saveSession"]
    /\ UNCHANGED << currentSession, nextId >>
    /\ UNCHANGED << task_vars, svc_vars, ext_vars, conn_vars, deploy_vars >>

\* ChatHistory.loadSession
loadSession(sessionId) ==
    LET sessions == loadAllSessions(historyFile)
        index    == findIndex(sessions, sessionId)
    IN  /\ currentSession' = IF index > 0 THEN sessions[index] ELSE currentSession
        /\ lastCall' = [op |-> "loadSession", id |-> sessionId]
        /\ UNCHANGED << historyFile, nextId >>
        /\ UNCHANGED << task_vars, svc_vars, ext_vars, conn_vars, deploy_vars >>

\* ChatHistory.deleteSession
deleteSession(sessionId) ==
    /\ historyFile' = writeFileSync(SelectSeq(loadAllSessions(historyFile),
                                              LAMBDA s : s.id # sessionId))
    /\ currentSession' = IF currentSession # null /\ currentSession.id = sessionId
                         THEN null ELSE currentSession
    /\ lastCall' = [op |-> "deleteSession", id |-> sessionId]
    /\ UNCHANGED nextId
    /\ UNCHANGED << task_vars, svc_vars, ext_vars, conn_vars, deploy_vars >>

\* ChatHistory.clearAll
clearAll ==
    /\ historyFile' = NoFile
    /\ currentSession' = null
    /\ lastCall' = [op |-> "clearAll"]
    /\ UNCHANGED nextId
    /\ UNCHANGED << task_vars, svc_vars, ext_vars, conn_vars, deploy_vars >>

\* new ChatHistory(context)
HistoryInit ==
    /\ TaskIdle
    /\ active_tasks = <<>>
    /\ ServiceIdle
    /\ ExtensionIdle
    /\ SideIdle

HistoryNext ==
    \/ createSession
    \/ \E role \in Roles, content \in Contents : addMessage(role, content)
    \/ saveSession
    \/ \E sessionId \in 1..nextId : loadSession(sessionId)
    \/ \E sessionId \in 1..nextId : deleteSession(sessionId)
    \/ clearAll

HistorySpec == HistoryInit /\ [][HistoryNext]_vars

\* ------------------------------------------------------------------------
\* Properties
\* ------------------------------------------------------------------------

Last(seq) == seq[Len(seq)]

CountEvents(type) == Cardinality({i \in 1..Len(events) : events[i].type = type})

WorkspaceRoot == ResolveParts(Parts(WORKSPACE))

\* C1: a tool is executed for an action only after validate_action has
\* approved that same action in the same iteration (the executor call comes
\* right after the approving validator call), and an action the validator
\* rejects is never executed.
C1_ExecutedOnlyAfterApproval ==
    /\ \A i \in 1..Len(calls) :
          /\ calls[i].op = "execute" =>
                /\ i > 1
                /\ calls[i - 1].op = "validate"
                /\ calls[i - 1].exc = NoError
                /\ calls[i - 1].iteration = calls[i].iteration
                /\ calls[i - 1].idx = calls[i].idx
                /\ calls[i - 1].action = calls[i].action
                /\ validate_action(calls[i].action.tool, calls[i].action.params,
                                   WORKSPACE) = NoError
          /\ (calls[i].op = "validate" /\ calls[i].exc # NoError /\ i < Len(calls)) =>
                calls[i + 1].op = "validate"
    /\ pc = "execute" =>
          /\ calls # <<>>
          /\ Last(calls) = [op |-> "validate", iteration |-> iteration,
                            idx |-> action_idx, action |-> CurrentAction,
                            exc |-> NoError]

\* C1 witness: a batch in which one action was rejected and a later one was
\* approved and executed
C1_Witness ==
    \E i, j \in 1..Len(calls) :
        /\ i < j
        /\ calls[i].op = "validate" /\ calls[i].exc # NoError
        /\ calls[j].op = "execute"
        /\ calls[i].iteration = calls[j].iteration

\* a path that resolves to a location outside the workspace root
EscapesWorkspace(path) ==
    /\ path # <<>>
    /\ ~IsRelativeTo(ResolveUnder(WorkspaceRoot, path), WorkspaceRoot)

IsEscapingAccess(a) ==
    /\ a.tool \in {"read_file", "edit_file"}
    /\ "path" \in DOMAIN a.params
    /\ EscapesWorkspace(a.params.path)

PathEscapeOutcome(tool) ==
    [tool |-> tool, success |-> FALSE, error |-> "Path outside workspace",
     error_type |-> "SecurityError"]

\* C2: for a read_file or edit_file action whose path resolves outside the
\* workspace root, validation fails with the path-escape SecurityError, the
\* action is recorded as a failed outcome, and the file tool is never invoked
\* for it: the executor is not called and the files outside the workspace
\* stay as they were.
C2_PathEscapeRejected ==
    /\ \A i \in 1..Len(calls) :
          IsEscapingAccess(calls[i].action) =>
              /\ calls[i].op = "validate"
              /\ calls[i].exc = Raise("SecurityError", "Path outside workspace")
    /\ pc # "reasoning" =>
          \A k \in 1..Len(action_results) :
              IsEscapingAccess(agent_response.actions[k]) =>
                  action_results[k] = PathEscapeOutcome(agent_response.actions[k].tool)
    /\ \A r \in 1..Len(iterations) : \A k \in 1..Len(iterations[r].actions) :
          IsEscapingAccess(iterations[r].actions[k]) =>
              iterations[r].results[k] = PathEscapeOutcome(iterations[r].actions[k].tool)
    /\ pc \in {"execute", "succeeded"} => ~IsEscapingAccess(CurrentAction)
    /\ (pc = "check" /\ IsEscapingAccess(CurrentAction)) =>
          /\ Last(action_results) = PathEscapeOutcome(CurrentAction.tool)
          /\ Last(events) = Event("action_failed", CurrentAction.tool)
    /\ \A loc \in DOMAIN InitFs :
          ~IsRelativeTo(loc, WorkspaceRoot) => loc \in DOMAIN fs /\ fs[loc] = InitFs[loc]

\* C2 witness: an edit of an absolute path outside the workspace and a read
\* through a link that leaves it were both rejected, after a ../ traversal
\* had been rejected in an earlier iteration
C2_Witness ==
    /\ pc = "check"
    /\ agent_response.raw_response = "r_two_escapes"
    /\ action_results = << PathEscapeOutcome("edit_file"), PathEscapeOutcome("read_file") >>
    /\ \E r \in 1..Len(iterations) :
          /\ iterations[r].actions # <<>>
          /\ iterations[r].actions[1] = A_read_trav
          /\ iterations[r].results[1] = PathEscapeOutcome("read_file")

\* C3: the number of iterations started, of iteration_start events and of
\* decision-service calls never exceeds max_iterations.
C3_IterationsBounded ==
    /\ iteration <= max_iterations
    /\ CountEvents("iteration_start") = iteration
    /\ Len(llm_log) <= iteration
    /\ Len(iterations) <= iteration

\* C3 witness: the last allowed iteration was started and its call made
C3_Witness ==
    /\ iteration = max_iterations
    /\ Len(llm_log) = max_iterations
    /\ pc = "actions"

\* every answer so far held at least one action, each a well-formed action
\* that is neither finish nor report_error
PlainAnswersOnly ==
    /\ llm_log # <<>>
    /\ \A k \in 1..Len(llm_log) :
          /\ llm_log[k].actions # <<>>
          /\ \A j \in 1..Len(llm_log[k].actions) :
                /\ llm_log[k].actions[j] # NOT_A_MAPPING
                /\ llm_log[k].actions[j].tool \notin {"finish", "report_error"}

\* the action outcomes that failed since the last one that succeeded
FailRun ==
    LET oks    == {i \in 1..Len(events) : events[i].type = "action_success"}
        lastOk == IF oks = {} THEN 0 ELSE CHOOSE i \in oks : \A j \in oks : j <= i
    IN  Cardinality({i \in 1..Len(events) :
                        i > lastOk /\ events[i].type = "action_failed"})

\* C4 as stated: a task whose every answer is an action other than finish
\* and report_error ends Failed with the budget-exhausted reason after
\* exactly max_iterations iterations.
C4_Original ==
    (pc = "done" /\ PlainAnswersOnly) =>
        /\ status = "failed"
        /\ error = REASON_MAX_ITERATIONS
        /\ iteration = max_iterations
        /\ Len(llm_log) = max_iterations

\* C4 amended: such a task ends Failed; with the budget-exhausted reason it
\* ends after exactly max_iterations iterations and calls, never fewer or
\* more; the only other end is the consecutive-failure abort, and then
\* max_failures outcomes have failed back to back.
C4_BudgetExhaustedOrAborted ==
    (pc = "done" /\ PlainAnswersOnly) =>
        /\ status = "failed"
        /\ \/ /\ error = REASON_MAX_ITERATIONS
              /\ iteration = max_iterations
              /\ Len(llm_log) = max_iterations
              /\ Len(iterations) = max_iterations
              /\ FailRun < max_failures
           \/ /\ error = REASON_TOO_MANY_FAILURES
              /\ FailRun >= max_failures
              /\ iteration <= max_iterations

\* C4 witness: the budget ran out on a task that had a failed action on the way
C4_Witness ==
    /\ pc = "done"
    /\ PlainAnswersOnly
    /\ error = REASON_MAX_ITERATIONS
    /\ CountEvents("action_failed") > 0

\* C5: once max_failures action outcomes have failed back to back, across
\* batches and iterations, the only step left is the abort: the task becomes
\* Failed, task_failed is emitted, and no decision-service call and no tool
\* execution follows; after the abort nothing changes any more.
C5_AbortOnConsecutiveFailures ==
    /\ [](FailRun >= max_failures =>
            /\ pc \in {"check", "done"}
            /\ pc = "done" =>
                  /\ status = "failed"
                  /\ error = REASON_TOO_MANY_FAILURES
                  /\ Last(events) = Event("task_failed", REASON_TOO_MANY_FAILURES))
    /\ [][FailRun >= max_failures =>
            /\ pc = "check"
            /\ pc' = "done"
            /\ status' = "failed"
            /\ events' = Append(events, Event("task_failed", REASON_TOO_MANY_FAILURES))
            /\ calls' = calls
            /\ llm_log' = llm_log
            /\ fs' = fs]_vars

\* C5 witness: the abort came in the second iteration, fewer than
\* max_iterations, after failures in two batches
C5_Witness ==
    /\ pc = "done"
    /\ error = REASON_TOO_MANY_FAILURES
    /\ iteration = 2
    /\ iteration < max_iterations
    /\ Len(iterations) = 1
    /\ ~Last(iterations[1].results).success

\* C6: once a finish action has been validated and executed, nothing is
\* validated or executed after it, no later iteration starts, and the task
\* ends Completed with task_completed as its last event.
C6_FinishStops ==
    \A i \in 1..Len(calls) :
        (calls[i].op = "execute" /\ calls[i].action.tool = "finish"
                                 /\ calls[i].exc = NoError) =>
            /\ i = Len(calls)
            /\ calls[i].iteration = iteration
            /\ calls[i].idx = action_idx
            /\ CountEvents("iteration_start") = calls[i].iteration
            /\ Len(llm_log) = calls[i].iteration
            /\ pc \in {"succeeded", "done"}
            /\ pc = "done" =>
                  /\ status = "completed"
                  /\ error = "none"
                  /\ Last(events).type = "task_completed"
                  /\ CountEvents("task_completed") = 1
                  /\ CountEvents("task_failed") = 0

\* C6 witness: the task completed on a finish that had an action after it
C6_Witness ==
    /\ pc = "done"
    /\ status = "completed"
    /\ action_idx < Len(agent_response.actions)
    /\ CurrentAction.tool = "finish"

\* C7 as stated: once a report_error action has been executed the task ends
\* Failed with a reason other than budget exhaustion, and no action and no
\* iteration runs after it.
C7_ReportErrorEndsTask ==
    \A i \in 1..Len(calls) :
        (calls[i].op = "execute" /\ calls[i].action.tool = "report_error") =>
            /\ i = Len(calls)
            /\ calls[i].iteration = iteration
            /\ Len(llm_log) = calls[i].iteration
            /\ pc \in {"succeeded", "check", "done"}
            /\ pc = "done" =>
                  /\ status = "failed"
                  /\ error # REASON_MAX_ITERATIONS
                  /\ Last(events).type = "task_failed"

\* C8 as stated: a well-formed answer with an empty action list makes the
\* task Failed in that iteration, and the decision service is not called again.
C8_EmptyAnswerFailsTask ==
    \A k \in 1..Len(llm_log) :
        (llm_log[k].answer \notin {REASON_PARSE, REASON_LLM_TIMEOUT}
            /\ llm_log[k].actions = <<>>) =>
            /\ k = Len(llm_log)
            /\ iteration = k
            /\ pc \in {"reasoning", "actions", "done"}
            /\ pc = "done" => status = "failed"

\* C9: when the answer cannot be parsed, the task is Failed and task_failed is
\* emitted in that iteration, no action of that iteration is validated or
\* executed, and the decision service is not called again.
C9_ParseFailureFailsTask ==
    \A k \in 1..Len(llm_log) :
        llm_log[k].answer = REASON_PARSE =>
            /\ k = Len(llm_log)
            /\ iteration = k
            /\ pc = "done"
            /\ status = "failed"
            /\ error = REASON_PARSE
            /\ Last(events) = Event("task_failed", REASON_PARSE)
            /\ CountEvents("task_failed") = 1
            /\ \A c \in 1..Len(calls) : calls[c].iteration < k

\* C9 witness: the second answer could not be parsed, after actions had run
C9_Witness ==
    /\ pc = "done"
    /\ error = REASON_PARSE
    /\ Len(llm_log) = 2
    /\ calls # <<>>

\* the outcome recorded for a call that raised
FailedOutcome(c) ==
    [tool |-> c.action.tool, success |-> FALSE, error |-> c.exc.msg,
     error_type |-> c.exc.type]

\* C10: a failed action (validator rejection or tool error) is recorded as a
\* failed outcome and counted; while the count is below max_failures the
\* task stays running and the loop goes on to the next action of the batch;
\* a successful action sets the count to zero; and the next call of the
\* decision service is given the answer and the results of the iteration,
\* the failures among them.
C10_FailureAbsorbed ==
    /\ [](/\ \A c \in 1..Len(calls) :
                calls[c].exc # NoError =>
                    LET res == IF calls[c].iteration <= Len(iterations)
                               THEN iterations[calls[c].iteration].results
                               ELSE action_results
                    IN  /\ calls[c].idx <= Len(res)
                        /\ res[calls[c].idx] = FailedOutcome(calls[c])
          /\ \A k \in 2..Len(llm_log) :
                LET given == llm_log[k].given
                    rec   == iterations[k - 1]
                IN  /\ Len(given) >= 3
                    /\ given[Len(given) - 1] =
                          [role |-> "assistant", content |-> llm_log[k - 1].answer]
                    /\ Last(given).role = "system"
                    /\ Len(Last(given).content) = Len(rec.actions)
                    /\ \A j \in 1..Len(rec.results) :
                          ~rec.results[j].success =>
                              Last(given).content[j] =
                                  [mark |-> "failed", tool |-> rec.actions[j].tool,
                                   text |-> << rec.results[j].error,
                                               rec.results[j].error_type >>])
    /\ [][/\ (calls' # calls /\ Last(calls').exc # NoError) =>
                /\ consecutive_failures' = consecutive_failures + 1
                /\ action_results' = Append(action_results, FailedOutcome(Last(calls')))
                /\ events' = Append(events, Event("action_failed", CurrentAction.tool))
                /\ status' = "running"
          /\ (calls' # calls /\ Last(calls').op = "execute"
                             /\ Last(calls').exc = NoError) =>
                consecutive_failures' = 0
          /\ (pc = "check" /\ consecutive_failures < max_failures) =>
                /\ pc' = "actions"
                /\ action_idx' = action_idx + 1
                /\ agent_response' = agent_response
                /\ status' = "running"
                /\ events' = events]_vars

\* C10 witness: the decision service was called again and given the results
\* of a batch whose first action failed and whose second succeeded, and the
\* failure count is back at zero
C10_Witness ==
    /\ consecutive_failures = 0
    /\ \E k \in 2..Len(llm_log) :
          LET summary == Last(llm_log[k].given).content
          IN  /\ Len(summary) = 2
              /\ summary[1].mark = "failed"
              /\ summary[2].mark = "ok"

\* ------------------------------------------------------------------------
\* C12
\* ------------------------------------------------------------------------

IsOutcome(e)  == e.type \in {"action_success", "action_failed"}
IsTerminal(e) == e.type \in {"task_completed", "task_failed"}

\* the events that may stand right before an iteration_start or an action_start
MayPrecedeStart(e) ==
    e.type \in {"iteration_start", "reasoning", "action_success", "action_failed"}

\* the place in the stream of the iteration_start numbered r, 0 when none
IterationPos(r) ==
    LET at == {i \in 1..Len(events) :
                  events[i].type = "iteration_start" /\ events[i].detail = r}
    IN  IF at = {} THEN 0 ELSE CHOOSE i \in at : TRUE

\* the tools of the action_start events of iteration r, in stream order
StartedTools(r) ==
    LET from == IterationPos(r)
        next == IterationPos(r + 1)
        to   == IF next = 0 THEN Len(events) ELSE next - 1
        IsStart(e) == e.type = "action_start"
        starts == SelectSeq(SubSeq(events, from, to), IsStart)
    IN  [k \in 1..Len(starts) |-> starts[k].detail]

\* C12: the event stream of a task is ordered: it opens with iteration_start;
\* the iteration_start events are numbered 1, 2, ...; a reasoning event comes
\* only right after an iteration_start; every action_start is followed at
\* once by one action_success or action_failed of the same tool and every
\* such outcome follows an action_start; the action_start events of an
\* iteration name the tools of the decision service's answer in the order
\* given; a terminal event is the last event of the stream, there is at most
\* one, and the loop has ended exactly when the stream ends with it.
C12_EventStreamOrdered ==
    /\ events # <<>> => events[1].type = "iteration_start"
    /\ \A i \in 1..Len(events) :
          LET e == events[i]
          IN  /\ e.type \in {"iteration_start", "reasoning", "action_start",
                              "action_success", "action_failed",
                              "task_completed", "task_failed"}
              /\ e.type = "iteration_start" =>
                    /\ i > 1 => MayPrecedeStart(events[i - 1])
                    /\ e.detail = 1 + Cardinality({j \in 1..(i - 1) :
                                          events[j].type = "iteration_start"})
              /\ e.type = "reasoning" =>
                    i > 1 /\ events[i - 1].type = "iteration_start"
              /\ e.type = "action_start" =>
                    /\ i > 1 /\ MayPrecedeStart(events[i - 1])
                    /\ i < Len(events) =>
                          IsOutcome(events[i + 1]) /\ events[i + 1].detail = e.detail
                    /\ i = Len(events) => pc \in {"validate", "execute"}
              /\ IsOutcome(e) =>
                    i > 1 /\ events[i - 1].type = "action_start"
                          /\ events[i - 1].detail = e.detail
              /\ IsTerminal(e) => i = Len(events)
    /\ (pc = "done") <=> (events # <<>> /\ IsTerminal(Last(events)))
    /\ \A r \in 1..iteration :
          LET started == StartedTools(r)
          IN  /\ r > Len(llm_log) => started = <<>>
              /\ r <= Len(llm_log) =>
                    /\ Len(started) <= Len(llm_log[r].actions)
                    /\ \A k \in 1..Len(started) :
                          started[k] = llm_log[r].actions[k].tool

\* a finished stream with a reasoning event, a failed and a succeeded action in
\* one iteration, and task_completed at its end
C12_Witness ==
    /\ pc = "done"
    /\ Last(events).type = "task_completed"
    /\ \E i \in 1..Len(events) : events[i].type = "reasoning"
    /\ \E i \in 1..Len(events) :
          /\ events[i].type = "action_failed"
          /\ i + 2 <= Len(events)
          /\ events[i + 1].type = "action_start"
          /\ events[i + 2].type = "action_success"

\* ------------------------------------------------------------------------
\* C13
\* ------------------------------------------------------------------------

\* the last two calls are the approval and the successful run of one finish action
FinishExecuted ==
    /\ Len(calls) >= 2
    /\ LET v == calls[Len(calls) - 1]
           x == calls[Len(calls)]
       IN  /\ x.op = "execute" /\ x.exc = NoError /\ x.action.tool = "finish"
           /\ v.op = "validate" /\ v.exc = NoError
           /\ v.iteration = x.iteration /\ v.idx = x.idx

BudgetCause ==
    /\ error = REASON_MAX_ITERATIONS
    /\ iteration = max_iterations
    /\ Len(iterations) = max_iterations

FailuresCause ==
    /\ error = REASON_TOO_MANY_FAILURES
    /\ consecutive_failures >= max_failures
    /\ Len(events) >= 2
    /\ events[Len(events) - 1].type = "action_failed"

\* the decision service call raised: unreadable answer or timeout
DecisionCallCause ==
    /\ error \in {REASON_PARSE, REASON_LLM_TIMEOUT}
    /\ llm_log # <<>>
    /\ Last(llm_log).answer = error
    /\ Len(llm_log) = iteration

\* an element of the answer's action list is no mapping
MalformedActionCause ==
    /\ error = "AttributeError"
    /\ action_idx \in 1..Len(agent_response.actions)
    /\ CurrentAction = NOT_A_MAPPING

C11_CancelStopsIterations ==
    [][cancel_requested =>
          \A c \in Sockets : sockets'[c].iteration = sockets[c].iteration]_vars

TaskIsTerminal ==
    /\ TASK_ID \in DOMAIN active_tasks
    /\ active_tasks[TASK_ID].status \in {"completed", "failed"}

\* C14: once the task's stored status is completed or failed, no step changes
\* its status, result or error, and no loop runs for it any more.
C14_TerminalAbsorbing ==
    [][TaskIsTerminal =>
          /\ active_tasks' = active_tasks
          /\ \A c \in Sockets : InLoop(c)' => InLoop(c)]_vars

\* C15: at most one loop runs for the task at any time.
C15_OneLoopPerTask ==
    Cardinality({c \in Sockets : InLoop(c)}) <= 1

\* ------------------------------------------------------------------------
\* C16
\* ------------------------------------------------------------------------

\* the allow-list of first words
AllowListed ==
    { <<"p","y","t","e","s","t">>, <<"p","y","t","h","o","n">>, <<"p","i","p">>,
      <<"b","l","a","c","k">>, <<"r","u","f","f">>, <<"m","y","p","y">> }

\* the deny-listed constructs: redirection, pipe, chaining, command
\* substitution, sudo, chmod, rm -rf
DenyListed ==
    { <<">">>, <<"|">>, <<"&","&">>, <<";">>, <<BACKQUOTE>>, <<"$","(">>,
      <<"s","u","d","o">>, <<"c","h","m","o","d">>, <<"r","m"," ","-","r","f">> }

HasLeadingToken(cmd) == \E i \in 1..Len(cmd) : cmd[i] \notin WHITESPACE

\* the first run of non-blank characters of cmd
LeadingToken(cmd) ==
    LET first == CHOOSE i \in 1..Len(cmd) :
                    /\ cmd[i] \notin WHITESPACE
                    /\ \A j \in 1..(i - 1) : cmd[j] \in WHITESPACE
        stop  == CHOOSE k \in first..Len(cmd) :
                    /\ \A j \in first..k : cmd[j] \notin WHITESPACE
                    /\ k = Len(cmd) \/ cmd[k + 1] \in WHITESPACE
    IN  SubSeq(cmd, first, stop)

HasDenyListed(cmd) == \E d \in DenyListed : Contains(cmd, d)

CommandOf(c) == Get(c.action.params, "command", <<>>)

BlockedSegments ==
    { <<".","e","n","v">>, <<".","g","i","t">>,
      <<"n","o","d","e","_","m","o","d","u","l","e","s">>,
      <<"_","_","p","y","c","a","c","h","e","_","_">>,
      <<".","v","e","n","v">>, <<"v","e","n","v">> }

\* where a path given to a tool leads, symbolic links and ".." followed
TargetOf(path) == ResolveUnder(WorkspaceRoot, path)

\* the path leads into the workspace and one of its segments there is blocked
InsideAndBlocked(path) ==
    /\ IsRelativeTo(TargetOf(path), WorkspaceRoot)
    /\ \E k \in (Len(WorkspaceRoot) + 1)..Len(TargetOf(path)) :
          TargetOf(path)[k] \in BlockedSegments

\* C17: a file action whose path leads inside the workspace to a location
\* with a blocked segment is rejected with the blocked-path SecurityError; one
\* whose path leads outside the workspace is rejected with the path-escape
\* SecurityError, blocked segment or not; neither reaches the executor.
C17_BlockedPathRejected ==
    \A i \in 1..Len(calls) :
        LET c    == calls[i]
            path == Get(c.action.params, "path", <<>>)
        IN  (c.action.tool \in FILE_TOOLS /\ path # <<>>) =>
                /\ (c.op = "validate" /\ InsideAndBlocked(path)) =>
                        c.exc = Raise("SecurityError", "Access denied to blocked path")
                /\ (c.op = "validate" /\ ~IsRelativeTo(TargetOf(path), WorkspaceRoot)) =>
                        c.exc = Raise("SecurityError", "Path outside workspace")
                /\ c.op = "execute" =>
                        /\ ~InsideAndBlocked(path)
                        /\ IsRelativeTo(TargetOf(path), WorkspaceRoot)

\* a path under an allowed directory with a blocked segment has been rejected
\* as blocked, and the loop has gone on without running the tool
C17_Witness ==
    /\ Len(calls) = 1
    /\ calls[1].op = "validate"
    /\ calls[1].action.tool = "create_file"
    /\ InsideAndBlocked(calls[1].action.params.path)
    /\ IsRelativeTo(TargetOf(calls[1].action.params.path),
                    WorkspaceRoot \o << <<"s","r","c">> >>)
    /\ calls[1].exc = Raise("SecurityError", "Access denied to blocked path")
    /\ fs = InitFs
    /\ pc = "actions"
    /\ action_idx = 2

\* ------------------------------------------------------------------------
\* C18
\* ------------------------------------------------------------------------

\* the location a file action's path leads to
LocOf(c) == Loc(resolve_path(WORKSPACE, c.action.params.path))

\* C18: a read of a file over the read limit and a create with a content over
\* the write limit both end in an error, and no file the agent has created
\* holds more than the write limit.
C18_SizeLimitsEnforced ==
    \A i \in 1..Len(calls) :
        LET c == calls[i]
        IN  /\ ( /\ c.op = "execute"
                 /\ c.action.tool = "read_file"
                 /\ IsFile(fs, LocOf(c))
                 /\ Len(fs[LocOf(c)].content) > MAX_FILE_SIZE )
                => c.exc # NoError
            /\ ( /\ c.op = "execute"
                 /\ c.action.tool = "create_file"
                 /\ Len(c.action.params.content) > MAX_CREATE_SIZE )
                => c.exc # NoError
            /\ ( /\ c.op = "execute"
                 /\ c.action.tool = "create_file"
                 /\ c.exc = NoError
                 /\ IsFile(fs, LocOf(c)) )
                => Len(fs[LocOf(c)].content) <= MAX_CREATE_SIZE

\* ------------------------------------------------------------------------
\* C19, C20
\* ------------------------------------------------------------------------

\* the answer is: read src/a.py, edit(old, new), edit(new, old)
IsEditRun ==
    /\ Len(agent_response.actions) = 3
    /\ agent_response.actions[2].tool = "edit_file"

\* the content of src/a.py before the first edit, as the read returned it
Original == action_results[1].result

FirstOld == agent_response.actions[2].params.old_string
FirstNew == agent_response.actions[2].params.new_string

\* the places where p occurs in s
Places(s, p) == {i \in 1..(Len(s) + 1) : StartsAt(s, p, i)}

\* s with the occurrence of old at place i replaced by new
ReplaceAt(s, i, old, new) ==
    SubSeq(s, 1, i - 1) \o new \o SubSeq(s, i + Len(old), Len(s))

\* the content of src/a.py between the two edits
Edited ==
    IF calls[6].exc = NoError THEN fs[LocABackup].content ELSE fs[LocA].content

C20_EditOnlyWhenUnique ==
    (IsEditRun /\ Len(calls) \in {4, 5}) =>
        LET at == Places(Original, FirstOld)
        IN  /\ Cardinality(at) # 1 =>
                  /\ calls[4].exc.type = "ValueError"
                  /\ fs[LocA].content = Original
            /\ Cardinality(at) = 1 =>
                  /\ calls[4].exc = NoError
                  /\ \A i \in at :
                        fs[LocA].content = ReplaceAt(Original, i, FirstOld, FirstNew)

\* ------------------------------------------------------------------------
\* C21, C22, C23
\* ------------------------------------------------------------------------

\* the i-th action of the answer was a delete that succeeded, and the action
\* before it was a read of the same path that succeeded
DeletedAfterRead(i) ==
    /\ i > 1
    /\ action_results[i].tool = "delete_file"
    /\ action_results[i].success
    /\ action_results[i - 1].tool = "read_file"
    /\ action_results[i - 1].success
    /\ agent_response.actions[i - 1].params.path = agent_response.actions[i].params.path

\* C21: after any sequence of create and delete operations, the content each
\* deleted file had when it was deleted is stored at the backup location its
\* delete returned; a later delete of a file created anew at the same path
\* does not overwrite the earlier backup.
C21_DeleteKeepsBackups ==
    \A i \in 1..Len(action_results) :
        DeletedAfterRead(i) =>
            /\ IsFile(fs, action_results[i].result.backup)
            /\ fs[action_results[i].result.backup].content = action_results[i - 1].result

\* the executor is about to run the tool of the current action
Executing(tool) == pc = "execute" /\ CurrentAction.tool = tool

\* the last action failed with this error and was counted
FailedWith(type, msg) ==
    /\ pc' = "check"
    /\ action_results' = Append(action_results,
                             [tool |-> CurrentAction.tool, success |-> FALSE,
                              error |-> msg, error_type |-> type])
    /\ events' = Append(events, Event("action_failed", CurrentAction.tool))
    /\ consecutive_failures' = consecutive_failures + 1

C23_CreateNeverOverwrites ==
    [][ Executing("create_file") =>
            /\ Exists(fs, Loc(resolve_path(WORKSPACE, CurrentAction.params.path))) =>
                    /\ fs' = fs
                    /\ FailedWith("FileExistsError", "File already exists")
            /\ \A l \in DOMAIN fs : l \in DOMAIN fs' /\ fs'[l] = fs[l] ]_vars

\* create on src/a.py, which exists, has failed and the file holds what the
\* read before it returned
C23_Witness ==
    /\ pc = "check"
    /\ action_idx = 3
    /\ CurrentAction.tool = "create_file"
    /\ Last(action_results).error_type = "FileExistsError"
    /\ IsFile(fs, LocA)
    /\ fs[LocA].content = action_results[1].result
    /\ fs[LocA].content # CurrentAction.params.content

\* ------------------------------------------------------------------------
\* C24
\* ------------------------------------------------------------------------

\* the answer is create(a.txt, "hi") then finish(success=true), the
\* workspace was empty
IsCreateThenFinish ==
    agent_response.actions =
        <<Act("create_file", [path |-> P_a_txt, content |-> S_hi]), A_finish>>

\* C24: when the decision service answers create(a.txt, "hi") then
\* finish(success=true) in an empty workspace, the task ends completed, a.txt
\* lies in the workspace root with content hi, and the events hold exactly one
\* action_success and exactly one task_completed.
C24_CreateThenFinish ==
    (IsCreateThenFinish /\ pc = "done") =>
        /\ status = "completed"
        /\ IsFile(fs, WorkspaceRoot \o <<P_a_txt>>)
        /\ fs[WorkspaceRoot \o <<P_a_txt>>].content = S_hi
        /\ CountEvents("action_success") = 1
        /\ CountEvents("task_completed") = 1


\* ------------------------------------------------------------------------
\* C25
\* ------------------------------------------------------------------------

\* the messages appended after the request so far
Appended == IF pc = "summarise" THEN 2 * iteration - 1 ELSE 2 * iteration

\* the place of a message among those appended after the request
Stamp(m) ==
    IF m.role = "assistant" THEN 2 * m.content - 1 ELSE 2 * m.content.iteration

\* C25: after any sequence of appends the memory holds at most max_history
\* messages; its first message is the original request; the others are the
\* most recent of the appended messages, none missing, in the order they
\* were appended, so that what was dropped are the oldest.
C25_MemoryCapped ==
    /\ Len(memory) <= max_history
    /\ Len(memory) = IF Appended + 1 <= max_history THEN Appended + 1 ELSE max_history
    /\ memory[1].role = "user"
    /\ memory[1].content = USER_REQUEST
    /\ \A i \in 2..Len(memory) :
          /\ memory[i].role # "user"
          /\ Stamp(memory[i]) = Appended - (Len(memory) - i)

\* the memory is full, five messages have been dropped, the request is there
C25_Witness ==
    /\ Len(memory) = max_history
    /\ Appended = max_history + 4
    /\ memory[1] = UserMessage
    /\ Stamp(memory[2]) = 6

\* ------------------------------------------------------------------------
\* C26
\* ------------------------------------------------------------------------

\* C26: the iteration log holds one record per iteration started, in order,
\* the iteration that ran finish and the one that aborted the task included:
\* once the task is terminal the log is as long as there are iteration_start
\* events.
C26_OneRecordPerIteration ==
    /\ \A i \in 1..Len(iterations) : iterations[i].iteration = i
    /\ Len(iterations) <= CountEvents("iteration_start")
    /\ pc = "done" => Len(iterations) = CountEvents("iteration_start")

\* ------------------------------------------------------------------------
\* C27
\* ------------------------------------------------------------------------

\* the action_success and action_failed events of iteration r, in order
OutcomesOf(r) ==
    LET from == IterationPos(r)
        next == IterationPos(r + 1)
        to   == IF next = 0 THEN Len(events) ELSE next - 1
    IN  SelectSeq(SubSeq(events, from, to), IsOutcome)

\* C27: when the decision service is about to be called for iteration k + 1,
\* the last two messages of the memory are the answer of iteration k, as the
\* assistant, and a system message with one line per action of that answer,
\* in the order of the actions, each naming the tool and marked as a success
\* or a failure as the action's outcome event was.
C27_MemoryHoldsLastIteration ==
    (pc = "llm" /\ iteration >= 2) =>
        LET k    == iteration - 1
            n    == Len(memory)
            outs == OutcomesOf(k)
        IN  /\ n >= 3
            /\ memory[n - 1] = [role |-> "assistant", content |-> llm_log[k].answer]
            /\ memory[n].role = "system"
            /\ Len(memory[n].content) = Len(llm_log[k].actions)
            /\ Len(outs) = Len(llm_log[k].actions)
            /\ \A i \in 1..Len(outs) :
                  /\ memory[n].content[i].tool = llm_log[k].actions[i].tool
                  /\ outs[i].detail = llm_log[k].actions[i].tool
                  /\ memory[n].content[i].mark =
                        IF outs[i].type = "action_success" THEN "ok" ELSE "failed"

\* the second call is about to be made; the first answer held a read that
\* was rejected and a read that succeeded, and the summary says so
C27_Witness ==
    /\ pc = "llm"
    /\ iteration = 2
    /\ llm_log[1].answer = "r_trav_then_read"
    /\ Len(memory) = 3
    /\ memory[2] = [role |-> "assistant", content |-> "r_trav_then_read"]
    /\ memory[3].role = "system"
    /\ memory[3].content[1].mark = "failed"
    /\ memory[3].content[2].mark = "ok"
    /\ memory[3].content[2].text = fs[LocA].content

\* ------------------------------------------------------------------------
\* C28
\* ------------------------------------------------------------------------

\* C28: a timeout of the decision service's call or of a tool is an ordinary
\* failed outcome: a task never fails for the reason that the call timed
\* out, and a tool that timed out has a failed outcome in the results and
\* ends the task only as the last of max_failures failures in a row.
C28_TimeoutIsOrdinaryFailure ==
    /\ status = "failed" => error # REASON_LLM_TIMEOUT
    /\ \A i \in 1..Len(llm_log) :
          llm_log[i].answer = REASON_LLM_TIMEOUT => status = "running"
    /\ (/\ calls # <<>>
        /\ Last(calls).exc # NoError
        /\ Last(calls).exc.type = "TimeoutError"
        /\ pc = "done") =>
            /\ error = REASON_TOO_MANY_FAILURES
            /\ consecutive_failures >= max_failures


\* ------------------------------------------------------------------------
\* C29
\* ------------------------------------------------------------------------

\* the names the extension's documentation blocks and the directories it
\* excludes
BlockedNames ==
    { <<".","e","n","v">>, <<".","e","n","v",".","*">>,
      <<"*",".","k","e","y">>, <<"*",".","p","e","m">> }

ExcludedDirectories ==
    { <<"n","o","d","e","_","m","o","d","u","l","e","s">>, <<".","g","i","t">> }

\* the file's name matches a blocked pattern or the file lies in an
\* excluded directory
MatchesBlockedPattern(path) ==
    LET segments == Parts(path)
    IN  \/ \E b \in BlockedNames : GlobMatch(b, 1, Last(segments), 1)
        \/ \E k \in 1..(Len(segments) - 1) : segments[k] \in ExcludedDirectories

\* C29: no file_upload message the extension has sent, whichever command sent
\* it, holds a file whose path matches a blocked pattern or whose size is
\* above aiAgent.maxFileSize.
C29_NoBlockedUpload ==
    \A i \in 1..Len(sent) :
        sent[i].type = "file_upload" =>
            \A f \in sent[i].files :
                /\ ~MatchesBlockedPattern(f.path)
                /\ Len(f.content) <= maxFileSize

\* ------------------------------------------------------------------------
\* C30
\* ------------------------------------------------------------------------

\* C30: the status bar shows the connected item exactly when the WebSocket
\* of the extension's connection is open.
C30_StatusBarShowsConnection ==
    (statusBarItem = TEXT_CHECK) <=> isConnected

\* the change a quick pick answered in this step belongs to, 0 when no pick
\* was answered
Answered ==
    IF Len(prompts') = Len(prompts) - 1 /\ Len(changes') = Len(changes)
    THEN CHOOSE c \in DOMAIN changes : changes'[c] # changes[c]
    ELSE 0

\* C31: with aiAgent.showDiff a file_changed message changes the workspace
\* file only when the user answers the quick pick that followed the diff with
\* apply; cancel and a dismissed pick leave the file as it is; without
\* showDiff the new text is written at once, with no quick pick.
C31_DiffBeforeApply ==
    [][ /\ Answered # 0 =>
              /\ changes[Answered].showDiff
              /\ changes[Answered].outcome = "asked"
              /\ IF changes'[Answered].outcome = "applied"
                 THEN document' = changes[Answered].content
                 ELSE /\ changes'[Answered].outcome \in {CANCEL, DISMISSED}
                      /\ document' = document
        /\ Len(changes') = Len(changes) + 1 =>
              LET new == changes'[Len(changes')]
              IN  /\ new.showDiff =>
                        /\ document' = document
                        /\ new.outcome \in {"asked", "failed"}
                        /\ new.outcome = "asked" <=> Len(prompts') = Len(prompts) + 1
                  /\ (~new.showDiff /\ new.outcome # "failed") =>
                        /\ new.outcome = "applied"
                        /\ document' = new.content
                        /\ prompts' = prompts
                  /\ new.outcome = "failed" => document' = document /\ prompts' = prompts
        /\ document' # document =>
              \/ Answered # 0 /\ changes'[Answered].outcome = "applied"
              \/ /\ Len(changes') = Len(changes) + 1
                 /\ ~changes'[Len(changes')].showDiff
      ]_vars

\* C31 witness: one message was applied after its quick pick, one was
\* cancelled, and the one written without asking came first
C31_Witness ==
    /\ Len(changes) = 3
    /\ ~changes[1].showDiff /\ changes[1].outcome = "applied"
    /\ changes[2].showDiff /\ changes[2].outcome = "applied"
    /\ changes[3].showDiff /\ changes[3].outcome \in {CANCEL, DISMISSED}
    /\ changes[2].content # changes[1].content
    /\ document = changes[2].content
    /\ prompts = <<>>

\* C32: the close of an open socket schedules a reconnect, which opens a new
\* socket; the reconnect timer opens at most maxReconnectAttempts sockets in
\* a row with no open between them; an open sets the attempt counter to 0;
\* when the fifth such socket in a row fails no further reconnect is
\* scheduled.
C32_ReconnectBounded ==
    [][ /\ retries' <= maxReconnectAttempts
        /\ reconnectAttempts' <= maxReconnectAttempts
        /\ (webSocket = "connecting" /\ webSocket' = "open") =>
              /\ reconnectAttempts' = 0
              /\ retries' = 0
        /\ (webSocket = "open" /\ webSocket' = "null" /\ connection' = "object") =>
              reconnectTimer'
        /\ (reconnectTimer /\ ~reconnectTimer' /\ connection' = "object") =>
              /\ webSocket = "null"
              /\ webSocket' = "connecting"
        /\ ( /\ retries = maxReconnectAttempts
             /\ webSocket = "connecting"
             /\ webSocket' = "null" ) =>
              ~reconnectTimer'
      ]_vars

\* C32 witness: after an open, the socket was lost and five reconnects in a
\* row have failed; nothing is scheduled any more
C32_Witness ==
    /\ connection = "object"
    /\ statusBarItem = TEXT_CHECK
    /\ retries = maxReconnectAttempts
    /\ reconnectAttempts = maxReconnectAttempts
    /\ webSocket = "null"
    /\ ~reconnectTimer

Said(line) == \E i \in 1..Len(output) : output[i] = line

\* C33: the health check is tried at most 5 times; a check that succeeds is
\* followed by the report of success and by no rollback; after 5 failed
\* checks the script has stopped the containers, restored the most recent
\* backup and started the containers again, exits with a status other than
\* 0 and never reports success.
C33_HealthCheckOrRollback ==
    /\ attempt <= MAX_RETRIES
    /\ Said("health check ok") =>
          /\ ~Said("health check failed")
          /\ containers = "new"
          /\ release = "new"
          /\ step = "exited" => exit_status = 0 /\ Said("deployed")
    /\ Said("health check failed") =>
          /\ attempt = MAX_RETRIES
          /\ ~Said("deployed")
          /\ step = "exited" =>
                /\ exit_status # 0
                /\ containers # "down"
                /\ backups # <<>>
                /\ release = backups[Len(backups)]

\* C34: while disconnect() has been called and connect() has not been
\* called since, the AgentConnection makes no new socket.
C34_NoReconnectAfterDisconnect ==
    [][(disconnected /\ disconnected') => Len(readyState') = Len(readyState)]_vars

\* the sockets of the AgentConnection that are connecting or open
LiveSockets == {i \in DOMAIN readyState : readyState[i] \in {CONNECTING, OPEN}}

\* C36: an AgentConnection has at most one socket that is connecting or
\* open; this.ws is its newest socket, or null once that socket is closing
\* or closed, so isConnected() holds exactly when the newest socket is open;
\* connect() on an open connection makes no socket and keeps the session id.
C36_OneLiveSocket ==
    [][ /\ Cardinality(LiveSockets') <= 1
        /\ this_ws' \in {0, Len(readyState')}
        /\ (this_ws' = 0 /\ readyState' # <<>>) =>
              readyState'[Len(readyState')] \in {CLOSING, CLOSED}
        /\ this_isConnected' <=>
              (readyState' # <<>> /\ readyState'[Len(readyState')] = OPEN)
        /\ (this_isConnected /\ this_isConnected' /\ timers' = timers) =>
              /\ Len(readyState') = Len(readyState)
              /\ this_sessionId' = this_sessionId
      ]_vars

\* C35: with every decision-service call and every tool execution
\* returning, execute_task emits a terminal event (task_completed or
\* task_failed) and stops, whatever the decision service answers.
C35_Terminates ==
    <>[](pc = "done" /\ events # <<>> /\ IsTerminal(Last(events)))

\* C35 witness: the decision service answered with an empty action list in
\* every iteration, and the task has ended on the iteration budget
C35_Witness ==
    /\ pc = "done"
    /\ Len(llm_log) = max_iterations
    /\ \A k \in 1..Len(llm_log) : llm_log[k].actions = <<>>
    /\ Last(events) = Event("task_failed", REASON_MAX_ITERATIONS)

\* C37: the task store agrees with the event stream: a stored task is
\* pending until an execution ends, and once an execution that was started
\* has ended, the stored status is terminal (completed or failed), also
\* when it ended because the client went away.
C37_StoreFollowsStream ==
    \A c \in Sockets :
        (sockets[c].pc = "closed" /\ sockets[c].status # IdleSocket.status) =>
            /\ TASK_ID \in DOMAIN active_tasks
            /\ active_tasks[TASK_ID].status \in {"completed", "failed"}

\* the handler registered for a type after the first n entries of the log:
\* that of the last on or off call for the type, none after an off
RECURSIVE Registered(_, _, _)
Registered(log, n, type) ==
    IF n = 0 THEN "undefined"
    ELSE IF log[n].op = "on" /\ log[n].type = type THEN log[n].handler
    ELSE IF log[n].op = "off" /\ log[n].type = type THEN "undefined"
    ELSE Registered(log, n - 1, type)

\* entry n of the log is a message that has a handler to go to
Deliverable(log, n) ==
    /\ log[n].op = "message"
    /\ log[n].data \in {JsonMessage(t) : t \in MessageTypes}
    /\ Registered(log, n - 1, log[n].data.value.type) # "undefined"

\* the handler calls the log asks for, in the order of the log
RECURSIVE Deliveries(_, _)
Deliveries(log, n) ==
    IF n = 0 THEN << >>
    ELSE IF Deliverable(log, n)
    THEN Append(Deliveries(log, n - 1),
                [handler |-> Registered(log, n - 1, log[n].data.value.type),
                 message |-> log[n].data.value])
    ELSE Deliveries(log, n - 1)

\* C38: an AgentConnection keeps at most one handler per message type, the
\* one of the last on call for the type unless off was called since; every
\* received message goes exactly once to the handler registered for its type
\* at that moment, in arrival order; a message that is no JSON, has no
\* handler or whose handler throws is dropped: the socket stays open and
\* later messages are delivered as if it had not come.
C38_OneHandlerInOrder ==
    /\ \A i, j \in 1..Len(messageHandlers) :
           messageHandlers[i].key = messageHandlers[j].key => i = j
    /\ \A t \in MessageTypes :
           Map_get(messageHandlers, t) = Registered(arrived, Len(arrived), t)
    /\ handled = Deliveries(arrived, Len(arrived))
    /\ this_isConnected

\* C38 witness: a handler was replaced, a message reached a handler that
\* throws, and a later message was delivered
C38_Witness ==
    /\ \E i, j \in 1..Len(arrived) :
          /\ i < j
          /\ arrived[i].op = "on" /\ arrived[j].op = "on"
          /\ arrived[i].type = arrived[j].type
          /\ arrived[i].handler # arrived[j].handler
    /\ \E k \in 1..Len(handled) : k < Len(handled) /\ Throws(handled[k].handler)

SessionIds(sessions) == {sessions[k].id : k \in 1..Len(sessions)}

\* C39: the stored history holds at most the limit of sessions, with
\* pairwise distinct ids; right after saveSession it contains the current
\* session, once, with all its messages in the order they were added; and
\* deleteSession(id) removes the session with that id and no other.
C39_HistoryKept ==
    [][ LET before == loadAllSessions(historyFile)
            after  == loadAllSessions(historyFile')
        IN  /\ Len(after) <= SessionLimit
            /\ \A i, j \in 1..Len(after) : after[i].id = after[j].id => i = j
            /\ (lastCall'.op = "saveSession" /\ currentSession # null) =>
                  /\ Cardinality({k \in 1..Len(after) :
                                     after[k].id = currentSession.id}) = 1
                  /\ \E k \in 1..Len(after) : after[k] = currentSession
            /\ lastCall'.op = "deleteSession" =>
                  /\ SessionIds(after) = SessionIds(before) \ {lastCall'.id}
                  /\ \A k \in 1..Len(after) :
                        \E j \in 1..Len(before) : before[j] = after[k]
      ]_vars

\* C39 witness: a session with two messages was saved a second time while
\* the history was full, and is stored once behind another session
C39_Witness ==
    /\ lastCall.op = "saveSession"
    /\ currentSession # null
    /\ Len(currentSession.messages) = MaxMessages
    /\ historyFile.exists
    /\ Len(historyFile.text) = SessionLimit
    /\ loadAllSessions(historyFile)[SessionLimit] = currentSession

\* C40: across the connect and disconnect commands the extension has at
\* most one keep-alive interval timer running, so that at most one ping is
\* sent in any 30-second interval.
C40_OnePingTimer ==
    /\ pingTimers <= 1
    /\ intervalPings <= 1

====
